---- MODULE Spec2Model ----
(***************************************************************************)
(* bevy_sprite3d: the mesh / material de-duplication caches, the pending   *)
(* sprite list and the four PostUpdate systems of src/src/lib.rs.          *)
(*                                                                         *)
(* Numbers.  The source computes in f32.  Here every real is an exact      *)
(* rational: a pixel count over pixels_per_metre, a pivot in units of      *)
(* 1/PivotDen, a colour channel in units of 1/ColourDen.  `x as u32` and   *)
(* `x as u8` are the saturating, truncating casts of Rust.  f32 rounding   *)
(* error is not modelled.                                                  *)
(***************************************************************************)
EXTENDS Integers, Sequences, FiniteSets, TLC

(***************************************************************************)
(* Bounds of the model.                                                    *)
(***************************************************************************)
MaxEntities == 2
MaxWaiting  == 2
MaxMutations == 1

(***************************************************************************)
(* Program constants.                                                      *)
(***************************************************************************)
MESH_CACHE_GRANULARITY == 1000
U8Max  == 255

PivotDen  == 2 * MESH_CACHE_GRANULARITY   \* pivots resolve half a quantisation step
ColourDen == 2 * U8Max                    \* colour channels resolve half a byte step

Min(a, b) == IF a < b THEN a ELSE b

\* Option<T>: None is the empty sequence, Some(x) the one-element sequence
None == << >>
Some(x) == << x >>

SeqToSet(s) == { s[i] : i \in 1..Len(s) }

(***************************************************************************)
(* Colours.  A LinearRgba is <<r, g, b, a>> in units of 1/ColourDen.  A    *)
(* Color carries its colour space: Sprite.color and                        *)
(* StandardMaterial.base_color are Colors, emissive is a LinearRgba.       *)
(***************************************************************************)
Srgba(c)       == [ space |-> "Srgba", rgba |-> c ]
LinearColor(c) == [ space |-> "LinearRgba", rgba |-> c ]

BLACK         == << 0, 0, 0, ColourDen >>                  \* LinearRgba::BLACK
LINEAR_RED    == << ColourDen, 0, 0, ColourDen >>          \* LinearRgba::RED
WHITE         == Srgba(<< ColourDen, ColourDen, ColourDen, ColourDen >>)   \* Color::WHITE
RED           == Srgba(<< ColourDen, 0, 0, ColourDen >>)   \* Color::srgb(1.0, 0.0, 0.0)
SRGB_HALF_RED == Srgba(<< U8Max, 0, 0, ColourDen >>)       \* Color::srgb(0.5, 0.0, 0.0)
HALF_RED      == LinearColor(<< U8Max, 0, 0, ColourDen >>)       \* linear red 0.5    -> byte 127
NEAR_HALF     == LinearColor(<< U8Max - 1, 0, 0, ColourDen >>)   \* linear red 0.498  -> byte 127

DEFAULT_ALPHA_MODE == "Mask(0.5)"

\* (c * 255.) as u8
ChannelToU8(n) == IF n <= 0 THEN 0 ELSE Min(U8Max, (n * U8Max) \div ColourDen)

reduce_colour(c) == << ChannelToU8(c[1]), ChannelToU8(c[2]), ChannelToU8(c[3]), ChannelToU8(c[4]) >>

\* the sRGB transfer function of one channel, x <= 0.04045 -> x / 12.92 and
\* x -> ((x + 0.055) / 1.055)^2.4 above, tabulated for the channel values 0, 0.5 and 1
\* that the colours of this model take: 0.5 -> 0.21404 = 109.16 / ColourDen
GammaToLinear(n) ==
    CASE n = 0         -> 0
      [] n = U8Max     -> 109
      [] n = ColourDen -> ColourDen

\* Color::to_linear: the payload of a LinearRgba, the decoded channels of an Srgba
\* (alpha is not gamma-encoded)
to_linear(c) ==
    IF c.space = "LinearRgba"
    THEN c.rgba
    ELSE << GammaToLinear(c.rgba[1]), GammaToLinear(c.rgba[2]), GammaToLinear(c.rgba[3]), c.rgba[4] >>

reduce_color_from_bevy(c) == reduce_colour(to_linear(c))

(***************************************************************************)
(* Assets of the host: images with their pixel size, atlas layouts with    *)
(* their ordered sub-rectangles (URect, pixels).                           *)
(***************************************************************************)
ImageIds  == {1, 2}
LayoutIds == {1, 2}

ImageSize(img) == IF img = 1 THEN << 32, 16 >> ELSE << 16, 16 >>

URect(x0, y0, x1, y1) == [minx |-> x0, miny |-> y0, maxx |-> x1, maxy |-> y1]

\* Layout 1: a 2x1 grid of 16x16 tiles.  Layout 2: the same tiles, the first one
\* held for two frames (TextureAtlasLayout::add_texture with the same rect).
LayoutTextures(l) ==
    IF l = 1 THEN << URect(0, 0, 16, 16), URect(16, 0, 32, 16) >>
             ELSE << URect(0, 0, 16, 16), URect(0, 0, 16, 16), URect(16, 0, 32, 16) >>

(***************************************************************************)
(* Geometry keys.                                                          *)
(***************************************************************************)
\* Quant on a grid four times as fine as MESH_CACHE_GRANULARITY
QuantFourTimesAsFine(num, den) ==
    IF num <= 0 THEN 0 ELSE (num * 4 * MESH_CACHE_GRANULARITY) \div den

\* (num/den * MESH_CACHE_GRANULARITY) as u32: truncated, a negative value gives 0.
\* (The saturation at u32::MAX is beyond every value of this model.)
Quant(num, den) ==
    IF num <= 0 THEN 0 ELSE (num * MESH_CACHE_GRANULARITY) \div den

BoolToU32(b) == IF b THEN 1 ELSE 0

\* sprite3d.pivot.unwrap_or(Vec2::new(0.5, 0.5))
PivotOf(s3d) == IF s3d.pivot = None THEN << PivotDen \div 2, PivotDen \div 2 >> ELSE s3d.pivot[1]

\* the key of a sprite without a texture atlas
PlainMeshKey(sprite, s3d) ==
    LET size == ImageSize(sprite.image)
        p    == PivotOf(s3d)
    IN  << Quant(size[1], s3d.pixels_per_metre),
           Quant(size[2], s3d.pixels_per_metre),
           Quant(p[1], PivotDen),
           Quant(p[2], PivotDen),
           BoolToU32(s3d.double_sided),
           0, 0, 0, 0 >>

\* the key of sub-rectangle rect of an atlas laid over the sprite's image
AtlasMeshKey(sprite, s3d, rect) ==
    LET size == ImageSize(sprite.image)
        p    == PivotOf(s3d)
        rw   == rect.maxx - rect.minx
        rh   == rect.maxy - rect.miny
    IN  << Quant(rw, s3d.pixels_per_metre),
           Quant(rh, s3d.pixels_per_metre),
           \* rect_pivot = pivot * frac_rect.size + frac_rect.min
           Quant(p[1] * rw + rect.minx * PivotDen, PivotDen * size[1]),
           Quant(p[2] * rh + rect.miny * PivotDen, PivotDen * size[2]),
           BoolToU32(s3d.double_sided),
           Quant(rect.minx, size[1]),
           Quant(rect.miny, size[2]),
           Quant(rect.maxx, size[1]),
           Quant(rect.maxy, size[2]) >>

(***************************************************************************)
(* quad: the mesh of a w x h rectangle, w = wpx / ppm, h = hpx / ppm.      *)
(* Positions are numerators over den = ppm * PivotDen; a UV coordinate is  *)
(* a fraction << numerator, denominator >>.                                *)
(***************************************************************************)
FullUV == << << <<0, 1>>, <<1, 1>> >>, << <<1, 1>>, <<1, 1>> >>,
             << <<0, 1>>, <<0, 1>> >>, << <<1, 1>>, <<0, 1>> >>,
             << <<0, 1>>, <<1, 1>> >>, << <<1, 1>>, <<1, 1>> >>,
             << <<0, 1>>, <<0, 1>> >>, << <<1, 1>>, <<0, 1>> >> >>

\* quad whose pivot None is the corner (0, 0)
quadCornerDefault(wpx, hpx, ppm, pivot, double_sided) ==
    LET w  == wpx * PivotDen
        h  == hpx * PivotDen
        px == IF pivot = None THEN 0 ELSE pivot[1][1] * wpx
        py == IF pivot = None THEN 0 ELSE pivot[1][2] * hpx
        four == << << -px, -py, 0 >>, << w - px, -py, 0 >>,
                   << -px, h - py, 0 >>, << w - px, h - py, 0 >> >>
    IN  [ positions |-> four \o four,
          den       |-> ppm * PivotDen,
          uv        |-> FullUV,
          indices   |-> IF double_sided THEN << 0, 1, 2, 1, 3, 2, 5, 4, 6, 7, 5, 6 >>
                                        ELSE << 0, 1, 2, 1, 3, 2 >> ]

quad(wpx, hpx, ppm, pivot, double_sided) ==
    LET w  == wpx * PivotDen
        h  == hpx * PivotDen
        w2 == w \div 2
        h2 == h \div 2
        px == IF pivot = None THEN 0 ELSE pivot[1][1] * wpx
        py == IF pivot = None THEN 0 ELSE pivot[1][2] * hpx
        four == IF pivot = None
                THEN << << -w2, -h2, 0 >>, << w2, -h2, 0 >>, << -w2, h2, 0 >>, << w2, h2, 0 >> >>
                ELSE << << -px, -py, 0 >>, << w - px, -py, 0 >>,
                        << -px, h - py, 0 >>, << w - px, h - py, 0 >> >>
    IN  [ positions |-> four \o four,
          den       |-> ppm * PivotDen,
          uv        |-> FullUV,
          indices   |-> IF double_sided THEN << 0, 1, 2, 1, 3, 2, 5, 4, 6, 7, 5, 6 >>
                                        ELSE << 0, 1, 2, 1, 3, 2 >> ]

\* the UV attribute written over an atlas mesh: frac_rect of rect in the image
AtlasUV(rect, size) ==
    LET x0 == << rect.minx, size[1] >>
        x1 == << rect.maxx, size[1] >>
        y0 == << rect.miny, size[2] >>
        y1 == << rect.maxy, size[2] >>
        four == << << x0, y1 >>, << x1, y1 >>, << x0, y0 >>, << x1, y0 >> >>
    IN  four \o four

(***************************************************************************)
(* Materials (StandardMaterial).  Roughness and reflectance in hundredths. *)
(* uv_flip records the parity of the FLIP_HORIZONTAL / FLIP_VERTICAL       *)
(* factors multiplied into uv_transform.                                   *)
(***************************************************************************)
DefaultMaterial ==
    [ base_color_texture   |-> None,
      base_color           |-> WHITE,
      cull_mode            |-> "Back",
      alpha_mode           |-> "Opaque",
      unlit                |-> FALSE,
      perceptual_roughness |-> 50,
      reflectance          |-> 50,
      emissive             |-> BLACK,
      uv_flip              |-> << FALSE, FALSE >> ]

\* StandardMaterial::flip
flip(mat, horizontal, vertical) ==
    [ mat EXCEPT !.uv_flip = << (@[1] # horizontal), (@[2] # vertical) >> ]

build_material(image, alpha_mode, unlit, emissive, flip_x, flip_y) ==
    flip([ DefaultMaterial EXCEPT !.base_color_texture   = Some(image),
                                  !.cull_mode            = "Back",
                                  !.alpha_mode           = alpha_mode,
                                  !.unlit                = unlit,
                                  !.perceptual_roughness = 50,
                                  !.reflectance          = 15,
                                  !.emissive             = emissive ],
         flip_x, flip_y)

\* MatKey as it was before the tint became part of it
MatKeyNoTint(sprite, s3d) ==
    [ image      |-> sprite.image,
      alpha_mode |-> s3d.alpha_mode,
      unlit      |-> s3d.unlit,
      emissive   |-> reduce_colour(s3d.emissive),
      base_color |-> reduce_color_from_bevy(WHITE),
      flip_x     |-> sprite.flip_x,
      flip_y     |-> sprite.flip_y ]

MatKey(sprite, s3d) ==
    [ image      |-> sprite.image,
      alpha_mode |-> s3d.alpha_mode,
      unlit      |-> s3d.unlit,
      emissive   |-> reduce_colour(s3d.emissive),
      base_color |-> reduce_color_from_bevy(sprite.color),
      flip_x     |-> sprite.flip_x,
      flip_y     |-> sprite.flip_y ]

(***************************************************************************)
(* State.                                                                  *)
(*   ent            the entities: components Sprite, Sprite3d, Mesh3d,     *)
(*                  MeshMaterial3d, the markers Sprite3dBuilder and        *)
(*                  Sprite3dUserMaterial, and the Changed<Sprite> flag     *)
(*   imgState       Assets<Image> / asset server state of each image       *)
(*   layoutState    the same for each TextureAtlasLayout                   *)
(*   mesh_cache, material_cache   Sprite3dCaches                           *)
(*   meshes, materials            Assets<Mesh>, Assets<StandardMaterial>;  *)
(*                  a handle is the index of the asset, 0 is the default   *)
(*   waiting        WaitingSprites: (entity, task) in push order           *)
(*   pc, todo       position in the PostUpdate schedule                    *)
(*   aborted        a system panicked                                      *)
(*   diagnostics    what the systems have reported through bevy::log::warn *)
(*   mutations      the number of changes the host has made to sprites     *)
(*                  it spawned (a field set, a despawn)                    *)
(***************************************************************************)
VARIABLES ent, imgState, layoutState, mesh_cache, material_cache,
          meshes, materials, waiting, pc, todo, aborted, mutations, diagnostics

vars == << ent, imgState, layoutState, mesh_cache, material_cache,
           meshes, materials, waiting, pc, todo, aborted, mutations, diagnostics >>

Entities == 1..MaxEntities

DefaultHandle == 0

EmptyMap == [ k \in {} |-> 0 ]

DefaultSprite ==
    [ image |-> 1, color |-> WHITE, flip_x |-> FALSE, flip_y |-> FALSE, texture_atlas |-> None ]

\* impl Default for Sprite3d
DefaultSprite3d ==
    [ texture_atlas_keys |-> << >>,
      pixels_per_metre   |-> 100,
      pivot              |-> None,
      alpha_mode         |-> DEFAULT_ALPHA_MODE,
      unlit              |-> FALSE,
      double_sided       |-> TRUE,
      emissive           |-> BLACK ]

\* an entity slot that holds no sprite: never spawned ("free") or despawned
NoSprite(status) ==
    [ status        |-> status,
      sprite        |-> DefaultSprite,
      sprite3d      |-> DefaultSprite3d,
      builder       |-> FALSE,
      user_material |-> FALSE,
      mesh          |-> DefaultHandle,
      material      |-> DefaultHandle,
      changed       |-> {},
      waited        |-> FALSE,
      resolvedBy    |-> "none" ]

Alive(e) == ent[e].status = "alive"

\* images.get(&sprite.image).is_some() && atlas_layouts.get(&atlas.layout).is_some()
\* the readiness check without image_ready: only the atlas layout is looked at
AssetsReadyLayoutOnly(sprite) ==
    sprite.texture_atlas # None => layoutState[sprite.texture_atlas[1].layout] = "Loaded"

AssetsReady(sprite) ==
    /\ imgState[sprite.image] = "Loaded"
    /\ sprite.texture_atlas # None => layoutState[sprite.texture_atlas[1].layout] = "Loaded"

(***************************************************************************)
(* A world is the part of the state a system works on while it iterates:   *)
(* [ent, mesh_cache, material_cache, meshes, materials, waiting, aborted,  *)
(*  commands], commands being the entities whose Sprite3dBuilder removal   *)
(* is queued and applied when the system has returned.                     *)
(***************************************************************************)
TheWorld ==
    [ ent |-> ent, mesh_cache |-> mesh_cache, material_cache |-> material_cache,
      meshes |-> meshes, materials |-> materials, waiting |-> waiting,
      aborted |-> FALSE, commands |-> {}, diagnostics |-> diagnostics ]

\* bevy::log::warn!(..)
Warn(w, message) == [ w EXCEPT !.diagnostics = @ \cup { message } ]

\* "Sprite3d asset load failed: {e}", the error naming the asset waited for
LoadFailed(rec) == << "Sprite3d asset load failed", rec.image >>

\* "Sprite3d: user material asset for entity {:?} missing when updating image"
MaterialMissing(e) == << "Sprite3d: user material asset missing when updating image", e >>

\* if sprite3d.texture_atlas_keys.last().copied() != Some(mesh_key) { push }
PushKeyUnlessLast(w, e, mesh_key) ==
    LET keys == w.ent[e].sprite3d.texture_atlas_keys
    IN  IF Len(keys) > 0 /\ keys[Len(keys)] = mesh_key
        THEN w
        ELSE [ w EXCEPT !.ent[e].sprite3d.texture_atlas_keys = Append(@, mesh_key) ]

\* sprite3d.texture_atlas_keys.push(mesh_key)
PushKey(w, e, mesh_key) ==
    [ w EXCEPT !.ent[e].sprite3d.texture_atlas_keys = Append(@, mesh_key) ]

\* EnsureAtlasMesh with a cache that is rebuilt, not extended, on a miss
EnsureAtlasMeshReplacing(w, e, rect, mesh_key) ==
    LET sprite == w.ent[e].sprite
        s3d    == w.ent[e].sprite3d
        mesh   == [ quad(rect.maxx - rect.minx, rect.maxy - rect.miny, s3d.pixels_per_metre,
                         Some(PivotOf(s3d)), s3d.double_sided)
                    EXCEPT !.uv = AtlasUV(rect, ImageSize(sprite.image)) ]
    IN  IF mesh_key \in DOMAIN w.mesh_cache
        THEN w
        ELSE [ w EXCEPT !.meshes     = Append(@, mesh),
                        !.mesh_cache = (mesh_key :> (Len(w.meshes) + 1)) ]

\* EnsureAtlasMesh for the rectangle of the sprite's current frame only
EnsureAtlasMeshSelectedOnly(w, e, rect, mesh_key) ==
    LET sprite == w.ent[e].sprite
        s3d    == w.ent[e].sprite3d
        atlas  == sprite.texture_atlas[1]
        mesh   == [ quad(rect.maxx - rect.minx, rect.maxy - rect.miny, s3d.pixels_per_metre,
                         Some(PivotOf(s3d)), s3d.double_sided)
                    EXCEPT !.uv = AtlasUV(rect, ImageSize(sprite.image)) ]
    IN  IF mesh_key \in DOMAIN w.mesh_cache \/ rect # LayoutTextures(atlas.layout)[atlas.index + 1]
        THEN w
        ELSE [ w EXCEPT !.meshes     = Append(@, mesh),
                        !.mesh_cache = (mesh_key :> (Len(w.meshes) + 1)) @@ @ ]

\* if !caches.mesh_cache.contains_key(&mesh_key) { build the atlas quad, add it, cache it }
EnsureAtlasMesh(w, e, rect, mesh_key) ==
    LET sprite == w.ent[e].sprite
        s3d    == w.ent[e].sprite3d
        mesh   == [ quad(rect.maxx - rect.minx, rect.maxy - rect.miny, s3d.pixels_per_metre,
                         Some(PivotOf(s3d)), s3d.double_sided)
                    EXCEPT !.uv = AtlasUV(rect, ImageSize(sprite.image)) ]
    IN  IF mesh_key \in DOMAIN w.mesh_cache
        THEN w
        ELSE [ w EXCEPT !.meshes     = Append(@, mesh),
                        !.mesh_cache = (mesh_key :> (Len(w.meshes) + 1)) @@ @ ]

\* AttachMesh without the cache lookup: a new quad every time
AttachMeshAlwaysNew(w, e) ==
    LET sprite == w.ent[e].sprite
        s3d    == w.ent[e].sprite3d
        keys   == s3d.texture_atlas_keys
        size   == ImageSize(sprite.image)
        pos    == IF sprite.texture_atlas # None THEN sprite.texture_atlas[1].index + 1 ELSE 1
    IN  IF pos > Len(keys)
        THEN [ w EXCEPT !.aborted = TRUE ]
        ELSE [ w EXCEPT !.meshes      = Append(@, quad(size[1], size[2], s3d.pixels_per_metre,
                                                      s3d.pivot, s3d.double_sided)),
                        !.mesh_cache  = [ k \in DOMAIN @ \cup { keys[pos] } |->
                                            IF k = keys[pos] THEN Len(w.meshes) + 1 ELSE @[k] ],
                        !.ent[e].mesh = Len(w.meshes) + 1 ]

\* AttachMesh that adds the new quad to the registry and forgets to cache it
AttachMeshUncached(w, e) ==
    LET sprite == w.ent[e].sprite
        s3d    == w.ent[e].sprite3d
        keys   == s3d.texture_atlas_keys
        size   == ImageSize(sprite.image)
        pos    == IF sprite.texture_atlas # None THEN sprite.texture_atlas[1].index + 1 ELSE 1
    IN  IF pos > Len(keys)
        THEN [ w EXCEPT !.aborted = TRUE ]
        ELSE IF keys[pos] \in DOMAIN w.mesh_cache
        THEN [ w EXCEPT !.ent[e].mesh = w.mesh_cache[keys[pos]] ]
        ELSE [ w EXCEPT !.meshes      = Append(@, quad(size[1], size[2], s3d.pixels_per_metre,
                                                      s3d.pivot, s3d.double_sided)),
                        !.ent[e].mesh = Len(w.meshes) + 1 ]

\* *mesh = { cached mesh of the sprite's key, created when absent }
AttachMesh(w, e) ==
    LET sprite == w.ent[e].sprite
        s3d    == w.ent[e].sprite3d
        keys   == s3d.texture_atlas_keys
        size   == ImageSize(sprite.image)
        pos    == IF sprite.texture_atlas # None THEN sprite.texture_atlas[1].index + 1 ELSE 1
    IN  IF pos > Len(keys)
        THEN [ w EXCEPT !.aborted = TRUE ]       \* index out of bounds / unwrap on None
        ELSE LET mesh_key == keys[pos]
             IN  IF mesh_key \in DOMAIN w.mesh_cache
                 THEN [ w EXCEPT !.ent[e].mesh = w.mesh_cache[mesh_key] ]
                 ELSE [ w EXCEPT !.meshes      = Append(@, quad(size[1], size[2], s3d.pixels_per_metre,
                                                               s3d.pivot, s3d.double_sided)),
                                 !.mesh_cache  = (mesh_key :> (Len(w.meshes) + 1)) @@ @,
                                 !.ent[e].mesh = Len(w.meshes) + 1 ]

\* materials.get_mut(&handle).is_some()
HasMaterial(mats, h) == h \in 1..Len(mats)

\* ApplyUserDeltas that writes every field build_material would set
ApplyUserDeltasOverwriting(mat, sprite, s3d) ==
    [ build_material(sprite.image, s3d.alpha_mode, s3d.unlit, s3d.emissive,
                     sprite.flip_x, sprite.flip_y)
      EXCEPT !.base_color = mat.base_color ]

\* the deltas written onto a user-supplied material
ApplyUserDeltas(mat, sprite, s3d) ==
    LET m1 == [ mat EXCEPT !.base_color_texture = Some(sprite.image) ]
        m2 == IF s3d.alpha_mode # DEFAULT_ALPHA_MODE THEN [ m1 EXCEPT !.alpha_mode = s3d.alpha_mode ] ELSE m1
        m3 == IF s3d.unlit THEN [ m2 EXCEPT !.unlit = TRUE ] ELSE m2
        m4 == IF s3d.emissive # BLACK THEN [ m3 EXCEPT !.emissive = s3d.emissive ] ELSE m3
    IN  IF sprite.flip_x \/ sprite.flip_y THEN flip(m4, sprite.flip_x, sprite.flip_y) ELSE m4

UserMaterialPath(w, e) ==
    LET h == w.ent[e].material
    IN  IF HasMaterial(w.materials, h)
        THEN [ w EXCEPT !.materials[h] = ApplyUserDeltas(@, w.ent[e].sprite, w.ent[e].sprite3d) ]
        ELSE w

\* GetOrCreateMaterial without the cache lookup: a new material every time
GetOrCreateMaterialAlwaysNew(w, e) ==
    LET sprite  == w.ent[e].sprite
        s3d     == w.ent[e].sprite3d
        new_mat == [ build_material(sprite.image, s3d.alpha_mode, s3d.unlit, s3d.emissive,
                                    sprite.flip_x, sprite.flip_y)
                     EXCEPT !.base_color = sprite.color ]
    IN  [ world  |-> [ w EXCEPT !.materials      = Append(@, new_mat),
                                !.material_cache = [ k \in DOMAIN @ \cup { MatKey(sprite, s3d) } |->
                                                       IF k = MatKey(sprite, s3d)
                                                       THEN Len(w.materials) + 1 ELSE @[k] ] ],
          handle |-> Len(w.materials) + 1 ]

\* the material-cache entry of the sprite's MatKey, created when absent
GetOrCreateMaterial(w, e) ==
    LET sprite  == w.ent[e].sprite
        s3d     == w.ent[e].sprite3d
        mat_key == MatKey(sprite, s3d)
        new_mat == [ build_material(sprite.image, s3d.alpha_mode, s3d.unlit, s3d.emissive,
                                    sprite.flip_x, sprite.flip_y)
                     EXCEPT !.base_color = sprite.color ]
    IN  IF mat_key \in DOMAIN w.material_cache
        THEN [ world |-> w, handle |-> w.material_cache[mat_key] ]
        ELSE [ world  |-> [ w EXCEPT !.materials      = Append(@, new_mat),
                                     !.material_cache = (mat_key :> (Len(w.materials) + 1)) @@ @ ],
               handle |-> Len(w.materials) + 1 ]

\* the material step of a resolution
AttachMaterial(w, e) ==
    IF w.ent[e].user_material
    THEN UserMaterialPath(w, e)
    ELSE LET r == GetOrCreateMaterial(w, e)
         IN  [ r.world EXCEPT !.ent[e].material = r.handle ]

\* QueueRemoveBuilder that forgets the command: the marker is never removed
QueueNothing(w, e, by) == w

\* commands.entity(e).remove::<Sprite3dBuilder>()
QueueRemoveBuilder(w, e, by) ==
    [ w EXCEPT !.commands = @ \cup {e}, !.ent[e].resolvedBy = by ]

\* the queued commands run when the system has returned
ApplyCommands(w) ==
    [ w EXCEPT !.ent = [ e \in Entities |->
                           IF e \in w.commands THEN [ w.ent[e] EXCEPT !.builder = FALSE ] ELSE w.ent[e] ] ]

(***************************************************************************)
(* bundle_builder                                                          *)
(***************************************************************************)
RECURSIVE BundleAtlasLoop(_, _, _)
\* for i in 0..atlas_layout.textures.len(): key of rect i, pushed unless it repeats
\* the last key, and its mesh cached
BundleAtlasLoop(w, e, i) ==
    LET sprite   == w.ent[e].sprite
        textures == LayoutTextures(sprite.texture_atlas[1].layout)
    IN  IF i > Len(textures)
        THEN w
        ELSE LET mesh_key == AtlasMeshKey(sprite, w.ent[e].sprite3d, textures[i])
             IN  BundleAtlasLoop(
                     EnsureAtlasMesh(PushKeyUnlessLast(w, e, mesh_key), e, textures[i], mesh_key),
                     e, i + 1)

\* waiting.0.push((e, task)): the task awaits the image, then the layout
SpawnWaitTask(w, e) ==
    LET sprite == w.ent[e].sprite
    IN  [ w EXCEPT !.waiting = Append(@, [ entity |-> e,
                                           image  |-> sprite.image,
                                           layout |-> IF sprite.texture_atlas = None THEN None
                                                      ELSE Some(sprite.texture_atlas[1].layout),
                                           status |-> "running" ]),
                   !.ent[e].waited = TRUE ]

\* BundleOne without the readiness check: every sprite is built at once
BundleOneNoReadyCheck(w, e) ==
    LET sprite == w.ent[e].sprite
        keyed  == IF sprite.texture_atlas # None
                  THEN BundleAtlasLoop(w, e, 1)
                  ELSE PushKeyUnlessLast(w, e, PlainMeshKey(sprite, w.ent[e].sprite3d))
        meshed == AttachMesh(keyed, e)
    IN  IF w.aborted THEN w
        ELSE IF meshed.aborted THEN meshed
        ELSE QueueRemoveBuilder(AttachMaterial(meshed, e), e, "bundle")

\* the body of the loop of bundle_builder for one entity
BundleOne(w, e) ==
    LET sprite == w.ent[e].sprite
        keyed  == IF sprite.texture_atlas # None
                  THEN BundleAtlasLoop(w, e, 1)
                  ELSE PushKeyUnlessLast(w, e, PlainMeshKey(sprite, w.ent[e].sprite3d))
        meshed == AttachMesh(keyed, e)
    IN  IF w.aborted THEN w
        ELSE IF ~AssetsReady(sprite) THEN SpawnWaitTask(w, e)
        \* images.get(&sprite.image).unwrap(), atlas_layouts.get(&atlas.layout).unwrap()
        ELSE IF imgState[sprite.image] # "Loaded" THEN [ w EXCEPT !.aborted = TRUE ]
        ELSE IF sprite.texture_atlas # None
                /\ layoutState[sprite.texture_atlas[1].layout] # "Loaded"
             THEN [ w EXCEPT !.aborted = TRUE ]
        ELSE IF meshed.aborted THEN meshed
        ELSE QueueRemoveBuilder(AttachMaterial(meshed, e), e, "bundle")

RECURSIVE BundleRun(_, _)
BundleRun(w, order) ==
    IF order = << >> THEN w ELSE BundleRun(BundleOne(w, Head(order)), Tail(order))

(***************************************************************************)
(* finalize_waiting_sprites                                                *)
(***************************************************************************)
RECURSIVE FinalizeAtlasLoop(_, _, _)
\* for rect in &atlas_layout.textures: key of the rect pushed, its mesh cached
FinalizeAtlasLoop(w, e, i) ==
    LET sprite   == w.ent[e].sprite
        textures == LayoutTextures(sprite.texture_atlas[1].layout)
    IN  IF i > Len(textures)
        THEN w
        ELSE LET mesh_key == AtlasMeshKey(sprite, w.ent[e].sprite3d, textures[i])
             IN  FinalizeAtlasLoop(
                     EnsureAtlasMesh(PushKey(w, e, mesh_key), e, textures[i], mesh_key),
                     e, i + 1)

\* FinalizeOne without the query.get_mut guard: the entity of the record is taken as is
FinalizeOneNoQuery(w, rec) ==
    LET e      == rec.entity
        sprite == w.ent[e].sprite
        keyed  == IF sprite.texture_atlas # None
                  THEN FinalizeAtlasLoop(w, e, 1)
                  ELSE PushKey(w, e, PlainMeshKey(sprite, w.ent[e].sprite3d))
        meshed == AttachMesh(keyed, e)
    IN  IF w.aborted THEN w
        ELSE IF rec.status = "running" THEN [ w EXCEPT !.waiting = Append(@, rec) ]
        ELSE IF rec.status = "err" THEN Warn(w, LoadFailed(rec))
        ELSE IF imgState[sprite.image] # "Loaded" THEN w
        ELSE IF sprite.texture_atlas # None
                /\ layoutState[sprite.texture_atlas[1].layout] # "Loaded" THEN w
        ELSE IF meshed.aborted THEN meshed
        ELSE QueueRemoveBuilder(AttachMaterial(meshed, e), e, "finalize")

\* FinalizeOne that consumes every record, finished or not, instead of keeping the
\* unfinished ones in still_waiting
FinalizeOneConsumesAll(w, rec) ==
    LET e      == rec.entity
        sprite == w.ent[e].sprite
        keyed  == IF sprite.texture_atlas # None
                  THEN FinalizeAtlasLoop(w, e, 1)
                  ELSE PushKey(w, e, PlainMeshKey(sprite, w.ent[e].sprite3d))
        meshed == AttachMesh(keyed, e)
    IN  IF w.aborted THEN w
        ELSE IF rec.status = "running" THEN w
        ELSE IF rec.status = "err" THEN Warn(w, LoadFailed(rec))
        ELSE IF ~(w.ent[e].status = "alive" /\ w.ent[e].builder) THEN w
        ELSE IF imgState[sprite.image] # "Loaded" THEN w
        ELSE IF sprite.texture_atlas # None
                /\ layoutState[sprite.texture_atlas[1].layout] # "Loaded" THEN w
        ELSE IF meshed.aborted THEN meshed
        ELSE QueueRemoveBuilder(AttachMaterial(meshed, e), e, "finalize")

\* the body of the loop of finalize_waiting_sprites for one pending record
FinalizeOne(w, rec) ==
    LET e      == rec.entity
        sprite == w.ent[e].sprite
        keyed  == IF sprite.texture_atlas # None
                  THEN FinalizeAtlasLoop(w, e, 1)
                  ELSE PushKey(w, e, PlainMeshKey(sprite, w.ent[e].sprite3d))
        meshed == AttachMesh(keyed, e)
    IN  IF w.aborted THEN w
        ELSE IF rec.status = "running" THEN [ w EXCEPT !.waiting = Append(@, rec) ]
        ELSE IF rec.status = "err" THEN Warn(w, LoadFailed(rec))
        ELSE IF ~(w.ent[e].status = "alive" /\ w.ent[e].builder) THEN w   \* query.get_mut fails
        ELSE IF imgState[sprite.image] # "Loaded" THEN w
        ELSE IF sprite.texture_atlas # None
                /\ layoutState[sprite.texture_atlas[1].layout] # "Loaded" THEN w
        ELSE IF meshed.aborted THEN meshed
        ELSE QueueRemoveBuilder(AttachMaterial(meshed, e), e, "finalize")

RECURSIVE FinalizeRun(_, _)
FinalizeRun(w, records) ==
    IF records = << >> THEN w ELSE FinalizeRun(FinalizeOne(w, Head(records)), Tail(records))

\* HandleImagesOne without the user_flag branch: every sprite takes the cached path
HandleImagesOneNoUserBranch(w, e) ==
    LET r == GetOrCreateMaterial(w, e)
    IN  [ r.world EXCEPT !.ent[e].material = r.handle ]

(***************************************************************************)
(* handle_images, handle_texture_atlases                                   *)
(***************************************************************************)
\* HandleImagesOne that also writes the default handle into Mesh3d
HandleImagesOneResetsMesh(w, e) ==
    LET done == IF w.ent[e].user_material
                THEN IF HasMaterial(w.materials, w.ent[e].material)
                     THEN UserMaterialPath(w, e)
                     ELSE Warn(w, MaterialMissing(e))
                ELSE LET r == GetOrCreateMaterial(w, e)
                     IN  [ r.world EXCEPT !.ent[e].material = r.handle ]
    IN  [ done EXCEPT !.ent[e].mesh = DefaultHandle ]

\* HandleImagesOne that gives a material only to a sprite that has none yet
HandleImagesOneOnlyUnset(w, e) ==
    IF w.ent[e].user_material
    THEN IF HasMaterial(w.materials, w.ent[e].material)
         THEN UserMaterialPath(w, e)
         ELSE Warn(w, MaterialMissing(e))
    ELSE IF w.ent[e].material # DefaultHandle
    THEN w
    ELSE LET r == GetOrCreateMaterial(w, e)
         IN  [ r.world EXCEPT !.ent[e].material = r.handle ]

\* HandleImagesOne that falls back to the material cache when the user's asset is missing
HandleImagesOneFallsBack(w, e) ==
    IF w.ent[e].user_material /\ HasMaterial(w.materials, w.ent[e].material)
    THEN UserMaterialPath(w, e)
    ELSE LET r == GetOrCreateMaterial(w, e)
         IN  [ r.world EXCEPT !.ent[e].material = r.handle ]

\* the body of the loop of handle_images for one changed entity
HandleImagesOne(w, e) ==
    IF w.ent[e].user_material
    THEN IF HasMaterial(w.materials, w.ent[e].material)
         THEN UserMaterialPath(w, e)
         ELSE Warn(w, MaterialMissing(e))
    ELSE LET r == GetOrCreateMaterial(w, e)
         IN  [ r.world EXCEPT !.ent[e].material = r.handle ]

RECURSIVE HandleImagesRun(_, _)
HandleImagesRun(w, order) ==
    IF order = << >> THEN w ELSE HandleImagesRun(HandleImagesOne(w, Head(order)), Tail(order))

\* HandleAtlasOne that leaves the mesh handle alone
HandleAtlasOneKeepsMesh(en, cache) == en

\* the body of the loop of handle_texture_atlases for one changed entity
HandleAtlasOne(en, cache) ==
    LET atlas == en.sprite.texture_atlas
        keys  == en.sprite3d.texture_atlas_keys
    IN  IF atlas = None THEN en
        ELSE IF atlas[1].index + 1 > Len(keys) THEN en
        ELSE IF keys[atlas[1].index + 1] \notin DOMAIN cache THEN en
        ELSE [ en EXCEPT !.mesh = cache[keys[atlas[1].index + 1]] ]

(***************************************************************************)
(* What the host application spawns: Sprite, Sprite3d and, when the user   *)
(* attaches a material before Sprite3d, that material.                     *)
(***************************************************************************)
BaseInput == [ sprite |-> DefaultSprite, sprite3d |-> DefaultSprite3d, user_material |-> None ]

Atlas(l, i) == Some([ layout |-> l, index |-> i ])

\* a user's own material: StandardMaterial { base_color: Color::srgb(1.0, 0.0, 0.0), ..default() }
UserMaterial == [ DefaultMaterial EXCEPT !.base_color = RED ]

\* a sprite that differs from the default in every material field but the tint
OtherMaterial ==
    [ BaseInput EXCEPT !.sprite.image        = 2,
                       !.sprite.flip_y       = TRUE,
                       !.sprite3d.alpha_mode = "Blend",
                       !.sprite3d.unlit      = TRUE,
                       !.sprite3d.emissive   = LINEAR_RED ]

\* plain sprites: two tints less than one byte step apart, and one sprite that
\* differs in the other material fields
MaterialInputs ==
    { [ BaseInput EXCEPT !.sprite.color = HALF_RED ],
      [ BaseInput EXCEPT !.sprite.color = NEAR_HALF ],
      OtherMaterial }

\* atlas sprites: the grid layout, and the layout that repeats a rectangle
AtlasInputs ==
    { [ BaseInput EXCEPT !.sprite.texture_atlas = Atlas(1, 0) ],
      [ BaseInput EXCEPT !.sprite.texture_atlas = Atlas(2, 1) ] }

\* an atlas sprite with a flipped material of the user's, and one without
UserInputs ==
    { [ BaseInput EXCEPT !.sprite.texture_atlas = Atlas(1, 0), !.sprite.flip_x = TRUE,
                         !.user_material = Some(UserMaterial) ],
      [ BaseInput EXCEPT !.sprite.texture_atlas = Atlas(1, 0), !.sprite.flip_x = TRUE ] }

\* a user's material with a custom roughness
RoughMaterial == [ DefaultMaterial EXCEPT !.base_color = RED, !.perceptual_roughness = 90 ]

\* plain sprites with a material of the user's: one that asks for every delta, and one
\* that asks for none
DeltaInputs ==
    { [ BaseInput EXCEPT !.sprite.flip_y       = TRUE,
                         !.sprite3d.alpha_mode = "Blend",
                         !.sprite3d.unlit      = TRUE,
                         !.sprite3d.emissive   = LINEAR_RED,
                         !.user_material       = Some(RoughMaterial) ],
      [ BaseInput EXCEPT !.user_material = Some(RoughMaterial) ] }

\* the pivot (x / PivotDen, 0.5)
PivotX(x) == Some(<< x, PivotDen \div 2 >>)

\* sprites that differ in their pivot alone: plain sprites with pivots half a
\* quantisation step apart around 0.001 and with negative pivots, and atlas sprites,
\* whose pivot is rescaled to the sub-rectangle, one and a half steps apart
KeyInputs ==
    { [ BaseInput EXCEPT !.sprite3d.pivot = PivotX(x) ] : x \in { 1, 2, 3, -500, -2000 } }
    \cup { [ BaseInput EXCEPT !.sprite3d.pivot = PivotX(x), !.sprite.texture_atlas = Atlas(1, 0) ] :
             x \in { 4, 7 } }

\* plain sprites over the pivots None, (0.5, 0.5), (0, 0), (1, 1) and (1.5, -0.5),
\* double-sided and single-sided
QuadInputs ==
    { BaseInput,
      [ BaseInput EXCEPT !.sprite3d.double_sided = FALSE ],
      [ BaseInput EXCEPT !.sprite3d.pivot = PivotX(PivotDen \div 2) ],
      [ BaseInput EXCEPT !.sprite3d.pivot = Some(<< 0, 0 >>) ],
      [ BaseInput EXCEPT !.sprite3d.pivot = Some(<< PivotDen, PivotDen >>),
                         !.sprite3d.double_sided = FALSE ],
      [ BaseInput EXCEPT !.sprite3d.pivot = Some(<< 3 * (PivotDen \div 2), -(PivotDen \div 2) >>) ] }

\* a plain sprite, and the same sprite flipped
FlipInputs == { BaseInput, [ BaseInput EXCEPT !.sprite.flip_x = TRUE ] }

\* a plain sprite and an atlas sprite
PlainInputs ==
    { BaseInput,
      [ BaseInput EXCEPT !.sprite.texture_atlas = Atlas(1, 1) ] }

(***************************************************************************)
(* Init                                                                    *)
(***************************************************************************)
Init ==
    /\ ent = [ e \in Entities |-> NoSprite("free") ]
    /\ imgState \in { [ img \in ImageIds |-> IF img = 1 THEN s ELSE "Loaded" ] :
                         s \in { "Loading", "Loaded" } }
    /\ layoutState = [ l \in LayoutIds |-> "Loaded" ]
    /\ mesh_cache = EmptyMap
    /\ material_cache = EmptyMap
    /\ meshes = << >>
    /\ materials = << >>
    /\ waiting = << >>
    /\ pc = "idle"
    /\ todo = {}
    /\ aborted = FALSE
    /\ diagnostics = {}
    /\ mutations = 0

Idle == pc = "idle" /\ ~aborted

(***************************************************************************)
(* Host operations (they run outside PostUpdate).                          *)
(***************************************************************************)
\* Spawn with a hook that marks every entity, whether a material was there or not
SpawnAlwaysMarked(d) ==
    /\ Idle
    /\ \E e \in Entities :
         /\ ent[e].status = "free"
         /\ \A f \in Entities : f < e => ent[f].status # "free"
         /\ ent' = [ ent EXCEPT ![e] =
                       [ NoSprite("alive") EXCEPT
                           !.sprite        = d.sprite,
                           !.sprite3d      = d.sprite3d,
                           !.builder       = TRUE,
                           !.user_material = TRUE,
                           !.material      = IF d.user_material # None
                                             THEN Len(materials) + 1 ELSE DefaultHandle,
                           !.changed       = { "spawn" } ] ]
    /\ materials' = IF d.user_material # None THEN Append(materials, d.user_material[1])
                                              ELSE materials
    /\ UNCHANGED << imgState, layoutState, mesh_cache, material_cache, meshes, waiting,
                    pc, todo, aborted, mutations,
                    diagnostics >>

\* commands.spawn((material?, Sprite3d, Sprite)); sprite3d_on_insert marks a material
\* that is already there, and inserts the default one otherwise
Spawn(d) ==
    /\ Idle
    /\ \E e \in Entities :
         /\ ent[e].status = "free"
         /\ \A f \in Entities : f < e => ent[f].status # "free"
         /\ ent' = [ ent EXCEPT ![e] =
                       [ NoSprite("alive") EXCEPT
                           !.sprite        = d.sprite,
                           !.sprite3d      = d.sprite3d,
                           !.builder       = TRUE,
                           !.user_material = (d.user_material # None),
                           !.material      = IF d.user_material # None
                                             THEN Len(materials) + 1 ELSE DefaultHandle,
                           !.changed       = { "spawn" } ] ]
    /\ materials' = IF d.user_material # None THEN Append(materials, d.user_material[1])
                                              ELSE materials
    /\ UNCHANGED << imgState, layoutState, mesh_cache, material_cache, meshes, waiting,
                    pc, todo, aborted, mutations,
                    diagnostics >>

\* commands.spawn((MeshMaterial3d(handle), Sprite3d, Sprite)) with a handle that has no
\* asset behind it: the hook finds the component and marks the entity
SpawnDangling(d) ==
    /\ Idle
    /\ \E e \in Entities :
         /\ ent[e].status = "free"
         /\ \A f \in Entities : f < e => ent[f].status # "free"
         /\ ent' = [ ent EXCEPT ![e] =
                       [ NoSprite("alive") EXCEPT
                           !.sprite        = d.sprite,
                           !.sprite3d      = d.sprite3d,
                           !.builder       = TRUE,
                           !.user_material = TRUE,
                           !.material      = DefaultHandle,
                           !.changed       = { "spawn" } ] ]
    /\ UNCHANGED << imgState, layoutState, mesh_cache, material_cache, meshes, materials,
                    waiting, pc, todo, aborted, mutations, diagnostics >>

\* commands.entity(e).despawn()
Despawn(e) ==
    /\ Idle
    /\ mutations < MaxMutations
    /\ mutations' = mutations + 1
    /\ Alive(e)
    /\ ent' = [ ent EXCEPT ![e] = [ NoSprite("despawned") EXCEPT !.waited = ent[e].waited ] ]
    /\ UNCHANGED << imgState, layoutState, mesh_cache, material_cache, meshes, materials,
                    waiting, pc, todo, aborted, diagnostics >>

\* sprite.texture_atlas.index = j
SetIndex(e, j) ==
    /\ Idle
    /\ mutations < MaxMutations
    /\ mutations' = mutations + 1
    /\ Alive(e)
    /\ ent[e].sprite.texture_atlas # None
    /\ j \in 0..(Len(LayoutTextures(ent[e].sprite.texture_atlas[1].layout)) - 1)
    /\ j # ent[e].sprite.texture_atlas[1].index
    /\ ent' = [ ent EXCEPT ![e].sprite.texture_atlas[1].index = j,
                           ![e].changed = @ \cup { "index" } ]
    /\ UNCHANGED << imgState, layoutState, mesh_cache, material_cache, meshes, materials,
                    waiting, pc, todo, aborted, diagnostics >>

\* an animation step: atlas.index = j; sprite.flip_x = !sprite.flip_x
Animate(e, j) ==
    /\ Idle
    /\ mutations < MaxMutations
    /\ mutations' = mutations + 1
    /\ Alive(e)
    /\ ent[e].sprite.texture_atlas # None
    /\ j \in 0..(Len(LayoutTextures(ent[e].sprite.texture_atlas[1].layout)) - 1)
    /\ j # ent[e].sprite.texture_atlas[1].index
    /\ ent' = [ ent EXCEPT ![e].sprite.texture_atlas[1].index = j,
                           ![e].sprite.flip_x = ~@,
                           ![e].changed = @ \cup { "index", "flip" } ]
    /\ UNCHANGED << imgState, layoutState, mesh_cache, material_cache, meshes, materials,
                    waiting, pc, todo, aborted, diagnostics >>

\* sprite.texture_atlas.index = j, for any j the host likes: nothing checks it against
\* the layout
SetIndexUnchecked(e, j) ==
    /\ Idle
    /\ mutations < MaxMutations
    /\ mutations' = mutations + 1
    /\ Alive(e)
    /\ ent[e].sprite.texture_atlas # None
    /\ j # ent[e].sprite.texture_atlas[1].index
    /\ ent' = [ ent EXCEPT ![e].sprite.texture_atlas[1].index = j,
                           ![e].changed = @ \cup { "index" } ]
    /\ UNCHANGED << imgState, layoutState, mesh_cache, material_cache, meshes, materials,
                    waiting, pc, todo, aborted, diagnostics >>

\* sprite.color = c
SetColor(e, c) ==
    /\ Idle
    /\ mutations < MaxMutations
    /\ mutations' = mutations + 1
    /\ Alive(e)
    /\ c # ent[e].sprite.color
    /\ ent' = [ ent EXCEPT ![e].sprite.color = c, ![e].changed = @ \cup { "color" } ]
    /\ UNCHANGED << imgState, layoutState, mesh_cache, material_cache, meshes, materials,
                    waiting, pc, todo, aborted, diagnostics >>

\* sprite.image = img
SetImage(e, img) ==
    /\ Idle
    /\ mutations < MaxMutations
    /\ mutations' = mutations + 1
    /\ Alive(e)
    /\ img # ent[e].sprite.image
    /\ ent' = [ ent EXCEPT ![e].sprite.image = img, ![e].changed = @ \cup { "image" } ]
    /\ UNCHANGED << imgState, layoutState, mesh_cache, material_cache, meshes, materials,
                    waiting, pc, todo, aborted, diagnostics >>

\* sprite.flip_x = !sprite.flip_x
ToggleFlipX(e) ==
    /\ Idle
    /\ mutations < MaxMutations
    /\ mutations' = mutations + 1
    /\ Alive(e)
    /\ ent' = [ ent EXCEPT ![e].sprite.flip_x = ~@, ![e].changed = @ \cup { "flip" } ]
    /\ UNCHANGED << imgState, layoutState, mesh_cache, material_cache, meshes, materials,
                    waiting, pc, todo, aborted, diagnostics >>

\* commands.entity(e).insert(Sprite3d { .. }) on an entity that has one already: the
\* new value has no keys yet, sprite3d_on_insert runs again and, finding the entity's
\* MeshMaterial3d, inserts Sprite3dUserMaterial; the required Sprite3dBuilder, removed at
\* resolution, is added again
ReinsertSprite3d(e) ==
    /\ Idle
    /\ mutations < MaxMutations
    /\ mutations' = mutations + 1
    /\ Alive(e)
    /\ ent' = [ ent EXCEPT ![e].sprite3d.texture_atlas_keys = << >>,
                           ![e].user_material = TRUE,
                           ![e].builder = TRUE ]
    /\ UNCHANGED << imgState, layoutState, mesh_cache, material_cache, meshes, materials,
                    waiting, pc, todo, aborted, diagnostics >>

(***************************************************************************)
(* The asset server and the IoTaskPool.                                    *)
(***************************************************************************)
ImageLoads(img) ==
    /\ Idle
    /\ imgState[img] = "Loading"
    /\ imgState' = [ imgState EXCEPT ![img] = "Loaded" ]
    /\ UNCHANGED << ent, layoutState, mesh_cache, material_cache, meshes, materials,
                    waiting, pc, todo, aborted, mutations,
                    diagnostics >>

ImageFails(img) ==
    /\ Idle
    /\ imgState[img] = "Loading"
    /\ imgState' = [ imgState EXCEPT ![img] = "Failed" ]
    /\ UNCHANGED << ent, layoutState, mesh_cache, material_cache, meshes, materials,
                    waiting, pc, todo, aborted, mutations,
                    diagnostics >>

LayoutLoads(l) ==
    /\ Idle
    /\ layoutState[l] = "Loading"
    /\ layoutState' = [ layoutState EXCEPT ![l] = "Loaded" ]
    /\ UNCHANGED << ent, imgState, mesh_cache, material_cache, meshes, materials,
                    waiting, pc, todo, aborted, mutations,
                    diagnostics >>

LayoutFails(l) ==
    /\ Idle
    /\ layoutState[l] = "Loading"
    /\ layoutState' = [ layoutState EXCEPT ![l] = "Failed" ]
    /\ UNCHANGED << ent, imgState, mesh_cache, material_cache, meshes, materials,
                    waiting, pc, todo, aborted, mutations,
                    diagnostics >>

\* server.wait_for_asset(&image_h).await?; then the same for the layout
TaskOutcome(rec) ==
    IF imgState[rec.image] = "Failed" THEN "err"
    ELSE IF imgState[rec.image] = "Loading" THEN "running"
    ELSE IF rec.layout = None THEN "ok"
    ELSE IF layoutState[rec.layout[1]] = "Failed" THEN "err"
    ELSE IF layoutState[rec.layout[1]] = "Loading" THEN "running"
    ELSE "ok"

\* the task of the k-th pending record runs to completion
TaskFinishes(k) ==
    /\ Idle
    /\ k \in 1..Len(waiting)
    /\ waiting[k].status = "running"
    /\ TaskOutcome(waiting[k]) # "running"
    /\ waiting' = [ waiting EXCEPT ![k].status = TaskOutcome(waiting[k]) ]
    /\ UNCHANGED << ent, imgState, layoutState, mesh_cache, material_cache, meshes,
                    materials, pc, todo, aborted, mutations,
                    diagnostics >>

(***************************************************************************)
(* The PostUpdate schedule: finalize_waiting_sprites, then bundle_builder, *)
(* then handle_texture_atlases and handle_images in either order.          *)
(***************************************************************************)
Perms(S) ==
    { f \in [ 1..Cardinality(S) -> S ] : \A i, j \in 1..Cardinality(S) : f[i] = f[j] => i = j }

Commit(w) ==
    /\ ent' = w.ent
    /\ mesh_cache' = w.mesh_cache
    /\ material_cache' = w.material_cache
    /\ meshes' = w.meshes
    /\ materials' = w.materials
    /\ waiting' = w.waiting
    /\ aborted' = w.aborted
    /\ diagnostics' = w.diagnostics

\* the records that stay pending over the coming frame, and those it adds
PendingAfterFrame ==
    Cardinality({ k \in 1..Len(waiting) : waiting[k].status = "running" })
    + Cardinality({ e \in Entities : Alive(e) /\ ent[e].builder /\ ~AssetsReady(ent[e].sprite) })

finalize_waiting_sprites ==
    /\ Idle
    /\ PendingAfterFrame <= MaxWaiting
    /\ Commit(ApplyCommands(FinalizeRun([ TheWorld EXCEPT !.waiting = << >> ], waiting)))
    /\ pc' = "bundle"
    /\ UNCHANGED << imgState, layoutState, todo, mutations >>

\* bundle_builder without .after(finalize_waiting_sprites): it may also open the frame
bundle_builder_unordered ==
    /\ pc \in { "idle", "bundle" } /\ ~aborted
    /\ \E order \in Perms({ e \in Entities : Alive(e) /\ ent[e].builder }) :
         Commit(ApplyCommands(BundleRun(TheWorld, order)))
    /\ pc' = "react"
    /\ todo' = { "handle_texture_atlases", "handle_images" }
    /\ UNCHANGED << imgState, layoutState, mutations >>

bundle_builder ==
    /\ pc = "bundle" /\ ~aborted
    /\ \E order \in Perms({ e \in Entities : Alive(e) /\ ent[e].builder }) :
         Commit(ApplyCommands(BundleRun(TheWorld, order)))
    /\ pc' = "react"
    /\ todo' = { "handle_texture_atlases", "handle_images" }
    /\ UNCHANGED << imgState, layoutState, mutations >>

Changed == { e \in Entities : Alive(e) /\ ent[e].changed # {} }

\* a system of the last stage has run; after both, the change ticks have moved on
Reacted(w, system) ==
    /\ todo' = todo \ { system }
    /\ pc' = IF todo \ { system } = {} THEN "idle" ELSE pc
    /\ Commit(IF todo \ { system } = {}
              THEN [ w EXCEPT !.ent = [ e \in Entities |-> [ w.ent[e] EXCEPT !.changed = {} ] ] ]
              ELSE w)

handle_images ==
    /\ pc = "react" /\ ~aborted
    /\ "handle_images" \in todo
    /\ \E order \in Perms(Changed) : Reacted(HandleImagesRun(TheWorld, order), "handle_images")
    /\ UNCHANGED << imgState, layoutState, mutations >>

handle_texture_atlases ==
    /\ pc = "react" /\ ~aborted
    /\ "handle_texture_atlases" \in todo
    /\ Reacted([ TheWorld EXCEPT !.ent = [ e \in Entities |->
                     IF e \in Changed THEN HandleAtlasOne(ent[e], mesh_cache) ELSE ent[e] ] ],
               "handle_texture_atlases")
    /\ UNCHANGED << imgState, layoutState, mutations >>

Frame ==
    \/ finalize_waiting_sprites
    \/ bundle_builder
    \/ handle_texture_atlases
    \/ handle_images

AssetLoads ==
    \/ \E img \in ImageIds : ImageLoads(img)
    \/ \E k \in 1..MaxWaiting : TaskFinishes(k)

AssetFails == \E img \in ImageIds : ImageFails(img)

(***************************************************************************)
(* Spec: a scene of plain and atlas sprites that the host spawns, changes  *)
(* and despawns, with images that load or fail.                            *)
(***************************************************************************)
Host ==
    \/ \E d \in PlainInputs : Spawn(d)
    \/ \E e \in Entities : Despawn(e)
    \/ \E e \in Entities : SetColor(e, SRGB_HALF_RED)

Next == Frame \/ AssetLoads \/ AssetFails \/ Host

Spec == Init /\ [][Next]_vars

(***************************************************************************)
(* SpecMaterial: a scene of plain sprites whose tints the host changes.    *)
(***************************************************************************)
HostMaterial ==
    \/ \E d \in MaterialInputs : Spawn(d)
    \/ \E e \in Entities, c \in { RED } : SetColor(e, c)

NextMaterial == Frame \/ AssetLoads \/ AssetFails \/ HostMaterial

SpecMaterial == Init /\ [][NextMaterial]_vars

(***************************************************************************)
(* SpecAtlas: a scene of atlas sprites whose frame index the host changes. *)
(***************************************************************************)
HostAtlas ==
    \/ \E d \in AtlasInputs : Spawn(d)
    \/ \E e \in Entities, j \in 0..2 : SetIndex(e, j)

NextAtlas == Frame \/ AssetLoads \/ HostAtlas

SpecAtlas == Init /\ [][NextAtlas]_vars

(***************************************************************************)
(* SpecUser: a scene of flipped atlas sprites, with and without a material *)
(* of the user's, whose frame index the host changes.                      *)
(***************************************************************************)
HostUser ==
    \/ \E d \in UserInputs : Spawn(d)
    \/ \E e \in Entities, j \in 0..1 : SetIndex(e, j)

NextUser == Frame \/ AssetLoads \/ HostUser

SpecUser == Init /\ [][NextUser]_vars

(***************************************************************************)
(* SpecDeltas: plain sprites with materials of the user's, whose flip the  *)
(* host toggles.                                                           *)
(***************************************************************************)
HostDeltas ==
    \/ \E d \in DeltaInputs : Spawn(d)
    \/ \E e \in Entities : ToggleFlipX(e)

NextDeltas == Frame \/ AssetLoads \/ HostDeltas

SpecDeltas == Init /\ [][NextDeltas]_vars

(***************************************************************************)
(* SpecFrames: atlas sprites on the two-tile layout whose frame index the   *)
(* host sets to any value, also past the last sub-rectangle.               *)
(***************************************************************************)
FrameInputs == { [ BaseInput EXCEPT !.sprite.texture_atlas = Atlas(1, 0) ] }

HostFrames ==
    \/ \E d \in FrameInputs : Spawn(d)
    \/ \E e \in Entities, j \in 0..2 : SetIndexUnchecked(e, j)

NextFrames == Frame \/ AssetLoads \/ HostFrames

SpecFrames == Init /\ [][NextFrames]_vars

(***************************************************************************)
(* SpecMissing: plain sprites, some of them spawned with a material handle *)
(* that has no asset, whose flip the host toggles.                         *)
(***************************************************************************)
HostMissing ==
    \/ Spawn(BaseInput)
    \/ SpawnDangling([ BaseInput EXCEPT !.sprite.flip_y = TRUE ])
    \/ \E e \in Entities : ToggleFlipX(e)

NextMissing == Frame \/ AssetLoads \/ HostMissing

SpecMissing == Init /\ [][NextMissing]_vars

(***************************************************************************)
(* SpecKeys: sprites of one image that differ in their pivot; the systems  *)
(* derive their geometry keys.                                             *)
(***************************************************************************)
HostKeys == \E d \in KeyInputs : Spawn(d)

NextKeys == Frame \/ AssetLoads \/ HostKeys

SpecKeys == Init /\ [][NextKeys]_vars

(***************************************************************************)
(* SpecQuad: plain sprites of one image over a range of pivots and both    *)
(* sidednesses; bundle_builder builds their quads.                         *)
(***************************************************************************)
HostQuad == \E d \in QuadInputs : Spawn(d)

NextQuad == Frame \/ AssetLoads \/ HostQuad

SpecQuad == Init /\ [][NextQuad]_vars

(***************************************************************************)
(* SpecReinsert: plain sprites resolved through the material cache, on     *)
(* which the host inserts Sprite3d again and whose image it changes.       *)
(***************************************************************************)
HostReinsert ==
    \/ \E d \in FlipInputs : Spawn(d)
    \/ \E e \in Entities : ReinsertSprite3d(e)
    \/ \E e \in Entities, img \in ImageIds : SetImage(e, img)

NextReinsert == Frame \/ AssetLoads \/ HostReinsert

SpecReinsert == Init /\ [][NextReinsert]_vars

(***************************************************************************)
(* SpecChange: atlas sprites whose image, tint, flip and frame index the    *)
(* host changes.                                                           *)
(***************************************************************************)
HostChange ==
    \/ \E d \in FrameInputs : Spawn(d)
    \/ \E e \in Entities, img \in ImageIds : SetImage(e, img)
    \/ \E e \in Entities : SetColor(e, RED)
    \/ \E e \in Entities : ToggleFlipX(e)
    \/ \E e \in Entities, j \in 0..1 : Animate(e, j)

NextChange == Frame \/ AssetLoads \/ HostChange

SpecChange == Init /\ [][NextChange]_vars

(***************************************************************************)
(* SpecFair: the scene of Spec without load failures, where the app keeps  *)
(* running its schedule: a system whose turn it is does run.               *)
(***************************************************************************)
HostFair ==
    \/ \E d \in PlainInputs : Spawn(d)
    \/ \E e \in Entities : Despawn(e)

NextFair == Frame \/ AssetLoads \/ HostFair

\* the schedule moves on to its next system: the app runs PostUpdate in every update,
\* and a system that does not panic returns
FrameTurn ==
    /\ ~aborted
    /\ pc = "idle" => PendingAfterFrame <= MaxWaiting
    /\ pc' = CASE pc = "idle"   -> "bundle"
                [] pc = "bundle" -> "react"
                [] OTHER         -> "idle"

SpecFair == Init /\ [][NextFair]_vars /\ WF_pc(FrameTurn)

(***************************************************************************)
(* Properties.                                                             *)
(***************************************************************************)
\* the sprite has been resolved: its Sprite3dBuilder marker is gone
Resolved(e) == Alive(e) /\ ~ent[e].builder /\ ent[e].resolvedBy # "none"

\* resolved through the material cache, and no change of its Sprite is still to be handled
CachedAndSettled(e) == Resolved(e) /\ ~ent[e].user_material /\ ent[e].changed = {}

MaterialFields(e) ==
    << ent[e].sprite.image, ent[e].sprite3d.alpha_mode, ent[e].sprite3d.unlit,
       ent[e].sprite3d.emissive, ent[e].sprite.color, ent[e].sprite.flip_x, ent[e].sprite.flip_y >>

\* the material fields as the key holds them: the colours reduced to four bytes
MaterialKeyFields(e) ==
    << ent[e].sprite.image, ent[e].sprite3d.alpha_mode, ent[e].sprite3d.unlit,
       reduce_colour(ent[e].sprite3d.emissive), reduce_colour(to_linear(ent[e].sprite.color)),
       ent[e].sprite.flip_x, ent[e].sprite.flip_y >>

\* C1: two sprites resolved through the material cache, by whichever system and in
\* whichever order, whose image, alpha mode, unlit flag, emissive colour, tint and flip
\* flags are equal hold the same material handle.
C1_EqualFieldsShareMaterial ==
    \A a, b \in Entities :
        ( CachedAndSettled(a) /\ CachedAndSettled(b) /\ MaterialFields(a) = MaterialFields(b) )
            => ent[a].material = ent[b].material

\* C1 witness: two sprites with equal material fields hold one cache-made material, one
\* of them resolved by bundle_builder, the other by finalize_waiting_sprites.
C1_Witness ==
    \E a, b \in Entities :
        /\ a # b
        /\ CachedAndSettled(a) /\ CachedAndSettled(b)
        /\ MaterialFields(a) = MaterialFields(b)
        /\ ent[a].resolvedBy = "bundle" /\ ent[b].resolvedBy = "finalize"
        /\ ent[a].material = ent[b].material
        /\ ent[a].material # DefaultHandle

\* C2 as claimed: two sprites resolved through the material cache that differ in a
\* material field (the tint, say) hold different material handles.
C2_DifferentFieldsDifferentMaterial ==
    \A a, b \in Entities :
        ( CachedAndSettled(a) /\ CachedAndSettled(b) /\ MaterialFields(a) # MaterialFields(b) )
            => ent[a].material # ent[b].material

\* C2 amended: two sprites resolved through the material cache that differ in a
\* component of the material key (image, alpha mode, unlit, emissive reduced to four
\* bytes, tint reduced to four bytes, flip flags) hold different material handles.
C2_DifferentKeysDifferentMaterial ==
    \A a, b \in Entities :
        ( CachedAndSettled(a) /\ CachedAndSettled(b) /\ MaterialKeyFields(a) # MaterialKeyFields(b) )
            => ent[a].material # ent[b].material

\* C2 witness: two resolved sprites that differ in their tint alone, by at least a
\* byte step, hold different materials.
C2_Witness ==
    \E a, b \in Entities :
        /\ CachedAndSettled(a) /\ CachedAndSettled(b)
        /\ ent[a].sprite.color # ent[b].sprite.color
        /\ [ ent[a].sprite EXCEPT !.color = WHITE ] = [ ent[b].sprite EXCEPT !.color = WHITE ]
        /\ MaterialKeyFields(a) # MaterialKeyFields(b)
        /\ ent[a].material # ent[b].material

\* the sub-rectangles, in layout order, of the atlas the sprite references
TexturesOf(e) == LayoutTextures(ent[e].sprite.texture_atlas[1].layout)

IsAtlasSprite(e) == ent[e].sprite.texture_atlas # None

\* the geometry key derived from sub-rectangle i (from 1) of the sprite's layout
RectKey(e, i) == AtlasMeshKey(ent[e].sprite, ent[e].sprite3d, TexturesOf(e)[i])

\* the sprite descriptor: everything the host supplies
Descriptor(e) ==
    << ent[e].sprite, [ ent[e].sprite3d EXCEPT !.texture_atlas_keys = << >> ], ent[e].user_material >>

\* a step of one of the four systems
SystemStep == pc # "idle" \/ pc' # "idle"

\* the sprite's Sprite3dBuilder marker is removed in this step
ResolvedNow(e) == ent[e].builder /\ ent'[e].status = "alive" /\ ~ent'[e].builder

\* the cache and its registry after a step of get-or-create lookups: entries that
\* were there are untouched, and every new key has one new asset of its own
GetOrCreateStep(oldCache, newCache, oldRegistry, newRegistry) ==
    LET new == DOMAIN newCache \ DOMAIN oldCache
    IN  /\ \A k \in DOMAIN oldCache : k \in DOMAIN newCache /\ newCache[k] = oldCache[k]
        /\ Len(newRegistry) = Len(oldRegistry) + Cardinality(new)
        /\ \A k \in new : newCache[k] \in (Len(oldRegistry) + 1)..Len(newRegistry)
        /\ \A k1, k2 \in new : newCache[k1] = newCache[k2] => k1 = k2

\* C3: every geometry and material lookup of bundle_builder, finalize_waiting_sprites and
\* handle_images is get-or-create: a key that is in the cache keeps its handle and adds
\* nothing to the registry, a key that is absent gets exactly one new asset, stored under
\* it, and the handle the sprite receives is the cache's entry for the key looked up.
C3_LookupsAreGetOrCreate ==
    [][ SystemStep =>
          /\ GetOrCreateStep(mesh_cache, mesh_cache', meshes, meshes')
          /\ GetOrCreateStep(material_cache, material_cache', materials, materials')
          /\ \A e \in Entities : ResolvedNow(e) =>
                LET keys == ent'[e].sprite3d.texture_atlas_keys
                    pos  == IF ent'[e].sprite.texture_atlas # None
                            THEN ent'[e].sprite.texture_atlas[1].index + 1 ELSE 1
                    key  == MatKey(ent'[e].sprite, ent'[e].sprite3d)
                IN  /\ pos <= Len(keys)
                    /\ keys[pos] \in DOMAIN mesh_cache'
                    /\ ent'[e].mesh = mesh_cache'[keys[pos]]
                    /\ ~ent'[e].user_material =>
                          key \in DOMAIN material_cache' /\ ent'[e].material = material_cache'[key]
          /\ ( "handle_images" \in todo /\ "handle_images" \notin todo' ) =>
                \A e \in Changed : ~ent[e].user_material =>
                    LET key == MatKey(ent[e].sprite, ent[e].sprite3d)
                    IN  key \in DOMAIN material_cache' /\ ent'[e].material = material_cache'[key]
      ]_vars

\* C3 witness: lookups have hit and missed: two resolved sprites share one mesh and one
\* material, a third key has its own material, and each registry holds one asset per key.
C3_Witness ==
    /\ \E a, b \in Entities :
          /\ a # b /\ Resolved(a) /\ Resolved(b)
          /\ ent[a].mesh = ent[b].mesh /\ ent[a].mesh # DefaultHandle
          /\ ent[a].material = ent[b].material /\ ent[a].material # DefaultHandle
    /\ Len(meshes) = Cardinality(DOMAIN mesh_cache)
    /\ Len(materials) = Cardinality(DOMAIN material_cache)

\* C4: a key once in the mesh cache or the material cache stays in it with the same
\* handle, whatever happens next: a frame, a spawn, a change of a sprite, an asset that
\* loads or fails, a despawn.
C4_CacheEntriesAreImmortal ==
    [][ /\ \A k \in DOMAIN mesh_cache :
              k \in DOMAIN mesh_cache' /\ mesh_cache'[k] = mesh_cache[k]
        /\ \A k \in DOMAIN material_cache :
              k \in DOMAIN material_cache' /\ material_cache'[k] = material_cache[k]
      ]_vars

\* C4 witness: a sprite has been despawned and both caches still hold an entry that no
\* living sprite uses.
C4_Witness ==
    /\ \E e \in Entities : ent[e].status = "despawned"
    /\ \E k \in DOMAIN mesh_cache : \A f \in Entities : Alive(f) => ent[f].mesh # mesh_cache[k]
    /\ \E k \in DOMAIN material_cache :
          \A f \in Entities : Alive(f) => ent[f].material # material_cache[k]

\* C5: once an atlas sprite is resolved, by either path, the mesh cache holds a mesh for
\* the geometry key of every sub-rectangle of its layout, not only for its current frame.
C5_EverySubRectangleCached ==
    \A e \in Entities :
        ( Resolved(e) /\ IsAtlasSprite(e) ) =>
            \A i \in 1..Len(TexturesOf(e)) :
                /\ RectKey(e, i) \in DOMAIN mesh_cache
                /\ mesh_cache[RectKey(e, i)] \in 1..Len(meshes)

\* C5 witness: atlas sprites resolved by bundle_builder and by finalize_waiting_sprites,
\* one of them on the three-rectangle layout, with all sub-rectangles' meshes cached.
C5_Witness ==
    \E a, b \in Entities :
        /\ Resolved(a) /\ IsAtlasSprite(a) /\ ent[a].resolvedBy = "bundle"
        /\ Resolved(b) /\ IsAtlasSprite(b) /\ ent[b].resolvedBy = "finalize"
        /\ Len(TexturesOf(b)) = 3
        /\ \A i \in 1..3 : RectKey(b, i) \in DOMAIN mesh_cache

\* C6: the texture_atlas_keys of a resolved atlas sprite has one entry per sub-rectangle
\* of the layout, entry i being the key derived from sub-rectangle i, for every layout
\* and either path.
C6_KeyListMatchesLayout ==
    \A e \in Entities :
        ( Resolved(e) /\ IsAtlasSprite(e) ) =>
            /\ Len(ent[e].sprite3d.texture_atlas_keys) = Len(TexturesOf(e))
            /\ \A i \in 1..Len(TexturesOf(e)) : ent[e].sprite3d.texture_atlas_keys[i] = RectKey(e, i)

\* C7: the first resolution of an atlas sprite whose frame index is within the layout
\* does not abort, and attaches the cached mesh of the sub-rectangle at that index.
C7_FirstResolutionAttachesFrame ==
    [][ /\ ~aborted'
        /\ \A e \in Entities :
              ( ResolvedNow(e) /\ ent'[e].sprite.texture_atlas # None ) =>
                  LET atlas == ent'[e].sprite.texture_atlas[1]
                      key   == AtlasMeshKey(ent'[e].sprite, ent'[e].sprite3d,
                                            LayoutTextures(atlas.layout)[atlas.index + 1])
                  IN  key \in DOMAIN mesh_cache' /\ ent'[e].mesh = mesh_cache'[key]
      ]_vars

\* the frame reacts to nothing but frame-index changes of resolved sprites
OnlyIndexChanged ==
    /\ pc = "react"
    /\ Changed # {}
    /\ \A e \in Changed :
          /\ Resolved(e)
          /\ ent[e].changed = { "index" }
          /\ ent[e].sprite.texture_atlas[1].index + 1 <= Len(ent[e].sprite3d.texture_atlas_keys)

\* C8: a change of the frame index of a resolved atlas sprite, cached or with a material
\* of the user's, changes only its mesh handle, which is mesh_cache[texture_atlas_keys[j]]
\* when the frame ends; the caches, the materials, the material handle and the key list
\* stay as they were.
C8_IndexChangeOnlySwapsMesh ==
    [][ OnlyIndexChanged =>
          /\ mesh_cache' = mesh_cache
          /\ material_cache' = material_cache
          /\ materials' = materials
          /\ meshes' = meshes
          /\ \A e \in Entities :
                /\ ent'[e].material = ent[e].material
                /\ ent'[e].sprite3d = ent[e].sprite3d
                /\ ent'[e].sprite = ent[e].sprite
                /\ e \notin Changed => ent'[e].mesh = ent[e].mesh
          /\ pc' = "idle" =>
                \A e \in Changed :
                    ent'[e].mesh = mesh_cache[ent[e].sprite3d.texture_atlas_keys[
                                                  ent[e].sprite.texture_atlas[1].index + 1]]
      ]_vars

\* C9: of two resolved sprites with identical descriptors, one whose assets were loaded
\* when it was first seen and one that had to wait for them, both hold the same mesh
\* handle and the same material handle.
C9_ImmediateAndDeferredAgree ==
    \A a, b \in Entities :
        ( /\ mutations = 0
          /\ Resolved(a) /\ Resolved(b)
          /\ ent[a].changed = {} /\ ent[b].changed = {}
          /\ Descriptor(a) = Descriptor(b)
          /\ ~ent[a].waited /\ ent[b].waited )
            => ( ent[a].mesh = ent[b].mesh /\ ent[a].material = ent[b].material )

\* C10: a sprite resolved by bundle_builder and a sprite of the same descriptor resolved
\* by finalize_waiting_sprites, after however many frames, are in the same state: equal
\* texture_atlas_keys, equal handles, marker removed.
C10_BothPathsSameState ==
    \A a, b \in Entities :
        ( /\ mutations = 0
          /\ Resolved(a) /\ Resolved(b)
          /\ ent[a].changed = {} /\ ent[b].changed = {}
          /\ Descriptor(a) = Descriptor(b)
          /\ ent[a].resolvedBy = "bundle" /\ ent[b].resolvedBy = "finalize" )
            => /\ ent[a].sprite3d.texture_atlas_keys = ent[b].sprite3d.texture_atlas_keys
               /\ ent[a].mesh = ent[b].mesh
               /\ ent[a].material = ent[b].material

\* the pending records of the entity, as positions in WaitingSprites
RecordsOf(e) == { k \in 1..Len(waiting) : waiting[k].entity = e }

\* C11: in every frame finalize_waiting_sprites runs first, bundle_builder second, and
\* handle_texture_atlases and handle_images after it: the schedule only moves from idle to
\* bundle_builder's turn, from there to the change reactions and from them back to idle,
\* and what each system does shows only in its own turn.
C11_SystemsRunInOrder ==
    [][ /\ pc = "idle"   => pc' \in { "idle", "bundle" }
        /\ pc = "bundle" => pc' \in { "bundle", "react" }
        /\ pc = "react"  => pc' \in { "react", "idle" }
        \* a sprite resolved by finalize_waiting_sprites: the step that opens the frame
        /\ ( \E e \in Entities : ent[e].resolvedBy # "finalize" /\ ent'[e].resolvedBy = "finalize" )
              => ( pc = "idle" /\ pc' = "bundle" )
        \* a sprite resolved or registered as waiting by bundle_builder: the second step
        /\ ( \/ \E e \in Entities : ent[e].resolvedBy # "bundle" /\ ent'[e].resolvedBy = "bundle"
             \/ Len(waiting') > Len(waiting) )
              => ( pc = "bundle" /\ pc' = "react" )
        \* a change reaction has run: bundle_builder has run before it in this frame
        /\ todo' # todo => ( pc = "react" \/ ( pc = "bundle" /\ pc' = "react" ) )
        /\ ( \E e \in Entities : Alive(e) /\ ent[e].changed # {} /\ ent'[e].changed = {}
                                 /\ ent'[e].status = "alive" )
              => ( pc = "react" /\ todo' = {} )
      ]_vars

\* C11 witness: whole frames have run: one sprite was resolved by
\* finalize_waiting_sprites, one by bundle_builder, and the change reactions have
\* handled both.
C11_Witness ==
    /\ pc = "idle"
    /\ \E a, b \in Entities :
          /\ Resolved(a) /\ ent[a].resolvedBy = "finalize" /\ ent[a].changed = {}
          /\ Resolved(b) /\ ent[b].resolvedBy = "bundle" /\ ent[b].changed = {}

\* every finished record that finalize_waiting_sprites is about to poll belongs to an
\* entity that has been despawned
OnlyDeadRecordsFinished ==
    /\ pc = "idle" /\ pc' = "bundle"
    /\ \E k \in 1..Len(waiting) : waiting[k].status # "running"
    /\ \A k \in 1..Len(waiting) :
          waiting[k].status # "running" => ent[waiting[k].entity].status = "despawned"

\* C12: when the wait task of a despawned entity has completed, finalize_waiting_sprites
\* drops its record: it does not abort, and the caches, the registries and all sprites
\* are as before; only the records still running stay.
C12_DeadEntityRecordDropped ==
    [][ OnlyDeadRecordsFinished =>
          /\ ~aborted'
          /\ mesh_cache' = mesh_cache /\ material_cache' = material_cache
          /\ meshes' = meshes /\ materials' = materials
          /\ ent' = ent
          /\ \A k \in 1..Len(waiting') : waiting'[k].status = "running"
          /\ Len(waiting') = Cardinality({ k \in 1..Len(waiting) : waiting[k].status = "running" })
      ]_vars

\* C12 witness: a sprite that was waiting has been despawned, its image has loaded, and
\* finalize_waiting_sprites has dropped its record.
C12_Witness ==
    /\ pc = "bundle"
    /\ \E e \in Entities :
          /\ ent[e].status = "despawned" /\ ent[e].waited
          /\ RecordsOf(e) = {}
          /\ imgState[1] = "Loaded"

\* C13: a sprite whose image failed to load is left unresolved, with no geometry and no
\* material created by the plugin attached to it.
C13_FailedSpriteHasNothingAttached ==
    \A e \in Entities :
        ( Alive(e) /\ ~ent[e].user_material /\ imgState[ent[e].sprite.image] = "Failed" )
            => /\ ent[e].builder
               /\ ent[e].mesh = DefaultHandle
               /\ ent[e].material = DefaultHandle

\* C14: while the image of the sprites is not loaded no maintenance routine aborts,
\* whatever number of frames run and whichever fields of the sprites are mutated.
C14_UnloadedImageNeverAborts ==
    ( \A e \in Entities : Alive(e) => imgState[ent[e].sprite.image] # "Loaded" ) => ~aborted

\* C14 witness: a sprite whose image is not loaded was spawned, bundle_builder deferred
\* it, its tint was mutated, and the frame reacting to the mutation has run to its end.
C14_Witness ==
    /\ pc = "idle" /\ ~aborted
    /\ \E e \in Entities :
          /\ Alive(e) /\ ent[e].builder /\ ent[e].waited
          /\ imgState[ent[e].sprite.image] # "Loaded"
          /\ ent[e].sprite.color = SRGB_HALF_RED
          /\ ent[e].changed = {}
          /\ Cardinality(RecordsOf(e)) >= 2

\* the entity is spawned in this step
SpawnedNow(e) == ent[e].status = "free" /\ ent'[e].status = "alive"

\* C15: a spawned entity carries the Sprite3dUserMaterial marker if and only if a
\* material was on it when Sprite3d was inserted; without one it gets the default
\* material handle and no marker; and the frames that follow leave the marker as it is.
C15_MarkerIffMaterialAtInsertion ==
    [][ \A e \in Entities :
          /\ SpawnedNow(e) =>
               /\ ent'[e].user_material <=> ( Len(materials') = Len(materials) + 1 )
               /\ ent'[e].user_material  => ent'[e].material = Len(materials')
               /\ ~ent'[e].user_material => ent'[e].material = DefaultHandle
          /\ ( Alive(e) /\ ent'[e].status = "alive" ) =>
               ent'[e].user_material = ent[e].user_material
      ]_vars

\* C15 witness: one sprite spawned with a material and one without, and a whole frame
\* has run: the first carries the marker, the second does not.
C15_Witness ==
    /\ pc = "idle"
    /\ \E a, b \in Entities :
          /\ Alive(a) /\ ent[a].user_material /\ ent[a].changed = {}
          /\ Alive(b) /\ ~ent[b].user_material /\ ent[b].changed = {}

\* the material keys of the sprites that carry no marker
CachedPathKeys ==
    { MatKey(ent[e].sprite, ent[e].sprite3d) :
        e \in { f \in Entities : Alive(f) /\ ~ent[f].user_material } }

\* C16: no step replaces the material handle of a sprite with the user-material marker,
\* and every entry a step adds to the material cache is the key of a sprite without the
\* marker: the cache is what it would be without the marked sprites.
C16_UserMaterialBypassesCache ==
    [][ /\ \A e \in Entities :
              ( Alive(e) /\ ent[e].user_material /\ ent'[e].status = "alive" )
                  => ent'[e].material = ent[e].material
        /\ ( DOMAIN material_cache' \ DOMAIN material_cache ) \subseteq CachedPathKeys
      ]_vars

\* C16 witness: a sprite with the marker was resolved, its frame index was changed and
\* the frame reacting to the change has run; the material cache is still empty.
C16_Witness ==
    /\ pc = "idle"
    /\ material_cache = EmptyMap
    /\ \E e \in Entities :
          /\ Resolved(e) /\ ent[e].user_material /\ ent[e].changed = {}
          /\ ent[e].sprite.texture_atlas = Atlas(1, 1)
          /\ HasMaterial(materials, ent[e].material)

\* what a step may do to the user's material of sprite e
OnlyDeltas(e, before, after) ==
    LET sprite == ent[e].sprite
        s3d    == ent[e].sprite3d
    IN  /\ after.base_color = before.base_color
        /\ after.perceptual_roughness = before.perceptual_roughness
        /\ after.reflectance = before.reflectance
        /\ after.cull_mode = before.cull_mode
        /\ after.base_color_texture \in { before.base_color_texture, Some(sprite.image) }
        /\ after.alpha_mode # before.alpha_mode
              => ( s3d.alpha_mode # DEFAULT_ALPHA_MODE /\ after.alpha_mode = s3d.alpha_mode )
        /\ after.unlit # before.unlit => ( s3d.unlit /\ after.unlit )
        /\ after.emissive # before.emissive
              => ( s3d.emissive # BLACK /\ after.emissive = s3d.emissive )
        /\ after.uv_flip # before.uv_flip => ( sprite.flip_x \/ sprite.flip_y )

\* C17: on the material of a sprite with a user-supplied material a step changes only
\* the texture reference, the alpha mode when the sprite's is not Mask(0.5), the unlit
\* flag when set, the emissive colour when not black and the flip when requested; the
\* step that resolves the sprite leaves the texture pointing at the sprite's image, and
\* base colour, roughness, reflectance and cull mode are never touched.
C17_OnlyDeltasOnUserMaterial ==
    [][ \A e \in Entities :
          ( Alive(e) /\ ent[e].user_material /\ ent'[e].status = "alive"
            /\ HasMaterial(materials, ent[e].material) )
            => /\ OnlyDeltas(e, materials[ent[e].material], materials'[ent[e].material])
               /\ ResolvedNow(e)
                    => materials'[ent[e].material].base_color_texture = Some(ent[e].sprite.image)
      ]_vars

\* C17 witness: a sprite asking for every delta and one asking for none have been
\* resolved on materials of the user's with a custom roughness.
C17_Witness ==
    \E a, b \in Entities :
        /\ Resolved(a) /\ ent[a].user_material /\ ent[a].sprite3d.alpha_mode = "Blend"
        /\ materials[ent[a].material].alpha_mode = "Blend"
        /\ materials[ent[a].material].unlit
        /\ materials[ent[a].material].emissive = LINEAR_RED
        /\ materials[ent[a].material].perceptual_roughness = 90
        /\ Resolved(b) /\ ent[b].user_material /\ ent[b].sprite3d.alpha_mode = DEFAULT_ALPHA_MODE
        /\ materials[ent[b].material].alpha_mode = "Opaque"
        /\ materials[ent[b].material].base_color_texture = Some(ent[b].sprite.image)
        /\ materials[ent[b].material].perceptual_roughness = 90

\* C18: WaitingSprites holds at most one pending record per sprite entity: a sprite
\* that stays unready over several frames is not registered again.
C18_OneRecordPerEntity ==
    \A e \in Entities : Cardinality(RecordsOf(e)) <= 1

\* C19: a resolved sprite has no pending record, and when finalize_waiting_sprites has
\* run no record whose wait has completed is left.
C19_NoRecordOnceResolved ==
    /\ \A k \in 1..Len(waiting) : ~Resolved(waiting[k].entity)
    /\ pc = "bundle" => \A k \in 1..Len(waiting) : waiting[k].status = "running"

\* the sprite is Waiting and its asset has become ready: a wait of its has completed
\* successfully and its image and atlas layout are readable
WaitCompleted(e) ==
    /\ Alive(e) /\ ent[e].builder
    /\ \E k \in RecordsOf(e) : waiting[k].status = "ok"
    /\ AssetsReady(ent[e].sprite)

\* the marker is gone and resolved geometry and material handles are attached
FullyResolved(e) ==
    /\ Resolved(e)
    /\ ent[e].mesh # DefaultHandle
    /\ ent[e].material # DefaultHandle

\* C20: when frames are scheduled fairly, a Waiting sprite whose wait has completed
\* successfully and whose assets are readable is eventually Resolved, with geometry and
\* material attached, unless its entity is destroyed.
C20_WaitingEventuallyResolved ==
    \A e \in Entities : WaitCompleted(e) ~> ( FullyResolved(e) \/ ~Alive(e) )

\* C20 witness: a sprite that waited for its image has been resolved by
\* finalize_waiting_sprites and holds geometry and material.
C20_Witness ==
    \E e \in Entities :
        /\ FullyResolved(e) /\ ent[e].waited /\ ent[e].resolvedBy = "finalize"
        /\ RecordsOf(e) = {}

\* bundle_builder is about to observe the sprite for the first time, and the sprite's
\* image and atlas layout are loaded
FirstObservedReady(e) ==
    /\ pc = "bundle"
    /\ Alive(e) /\ ent[e].builder /\ ~ent[e].waited
    /\ AssetsReady(ent[e].sprite)

\* C21: a sprite whose asset is loaded when bundle_builder first observes it is resolved
\* by that run of bundle_builder: geometry and material are attached, the key list is
\* built, the Sprite3dBuilder marker is removed, and no pending record is created for it.
C21_ReadySpriteResolvedSameFrame ==
    [][ ( pc = "bundle" /\ pc' = "react" ) =>
          \A e \in Entities :
              FirstObservedReady(e) =>
                  /\ ent'[e].status = "alive" /\ ~ent'[e].builder
                  /\ ent'[e].mesh # DefaultHandle
                  /\ ent'[e].material # DefaultHandle
                  /\ ent'[e].sprite3d.texture_atlas_keys # << >>
                  /\ ~ent'[e].waited
                  /\ \A k \in 1..Len(waiting') : waiting'[k].entity # e
      ]_vars

\* the task of the record has not finished
Unfinished(rec) == rec.status = "running"

\* C22: finalize_waiting_sprites returns without waiting on an unfinished task: after it
\* WaitingSprites holds exactly the records whose task had not finished, unchanged and in
\* the order they had, and every finished record has been consumed.
C22_UnfinishedRecordsKept ==
    [][ ( pc = "idle" /\ pc' = "bundle" ) =>
          /\ waiting' = SelectSeq(waiting, Unfinished)
          /\ ~aborted'
      ]_vars

\* C22 witness: finalize_waiting_sprites has run; it consumed the finished record of a
\* sprite, which it resolved, and left an unfinished record of the same sprite.
C22_Witness ==
    /\ pc = "bundle"
    /\ \E e \in Entities :
          /\ Resolved(e) /\ ent[e].resolvedBy = "finalize"
          /\ RecordsOf(e) # {}
          /\ \A k \in RecordsOf(e) : Unfinished(waiting[k])

\* the image of the sprite has neither loaded nor failed
StillLoading(e) == Alive(e) /\ imgState[ent[e].sprite.image] = "Loading"

\* C23: a sprite whose image has neither loaded nor failed is unresolved: it carries
\* Sprite3dBuilder, its key list is empty, no geometry is attached and no system has
\* resolved it, however many frames have run.
C23_NeverLoadedStaysWaiting ==
    \A e \in Entities :
        StillLoading(e) =>
            /\ ent[e].builder
            /\ ent[e].sprite3d.texture_atlas_keys = << >>
            /\ ent[e].mesh = DefaultHandle
            /\ ent[e].resolvedBy = "none"

\* C23 witness: a sprite whose image is still loading has been through whole frames and
\* is waiting, with two pending records.
C23_Witness ==
    /\ pc = "idle"
    /\ \E e \in Entities :
          /\ StillLoading(e) /\ ent[e].builder /\ ent[e].waited
          /\ ent[e].changed = {}
          /\ Cardinality(RecordsOf(e)) = 2
          /\ \A k \in RecordsOf(e) : waiting[k].status = "running"

\* the asset a handle points at, if any
ContentOf(registry, h) == IF h \in 1..Len(registry) THEN Some(registry[h]) ELSE None

\* what a sprite has been given in a world: the content of its mesh and of its material,
\* its key list, and whether it is still to be built
ResultIn(w, e) ==
    << ContentOf(w.meshes, w.ent[e].mesh), ContentOf(w.materials, w.ent[e].material),
       w.ent[e].sprite3d.texture_atlas_keys, w.ent[e].builder >>

\* C24: whatever order bundle_builder and handle_images take the sprites in, every sprite
\* ends the step with the same geometry and material content (dimensions, pivot offset,
\* UVs, base colour), also when two sprites derive the same cache key from inputs that
\* differ by less than a quantization step.
C24_OrderIndependent ==
    [][ /\ ( pc = "bundle" /\ pc' = "react" ) =>
              \A order \in Perms({ e \in Entities : Alive(e) /\ ent[e].builder }) :
                  \A e \in Entities :
                      ResultIn(ApplyCommands(BundleRun(TheWorld, order)), e)
                          = ResultIn([ TheWorld EXCEPT !.ent = ent', !.meshes = meshes',
                                                       !.materials = materials' ], e)
        /\ ( pc = "react" /\ "handle_images" \in todo /\ "handle_images" \notin todo' ) =>
              \A order \in Perms(Changed) :
                  \A e \in Entities :
                      ResultIn(HandleImagesRun(TheWorld, order), e)
                          = ResultIn([ TheWorld EXCEPT !.ent = ent', !.meshes = meshes',
                                                       !.materials = materials' ], e)
      ]_vars

\* the frame index of the sprite points outside its key list, or at a key that the mesh
\* cache does not hold
FrameMissing(e) ==
    LET keys == ent[e].sprite3d.texture_atlas_keys
        pos  == ent[e].sprite.texture_atlas[1].index + 1
    IN  pos > Len(keys) \/ keys[pos] \notin DOMAIN mesh_cache

\* C25: a routine that meets an atlas frame index without geometry terminates:
\* handle_texture_atlases when the index of a resolved, changed sprite has no key or no
\* cached mesh, bundle_builder when the index of the sprite it builds is outside the layout.
C25_MissingFrameTerminates ==
    [][ \A e \in Entities :
          /\ ( /\ pc = "react" /\ "handle_texture_atlases" \in todo
               /\ "handle_texture_atlases" \notin todo'
               /\ e \in Changed /\ Resolved(e) /\ IsAtlasSprite(e) /\ FrameMissing(e) )
                => aborted'
          /\ ( /\ pc = "bundle" /\ pc' = "react"
               /\ Alive(e) /\ ent[e].builder /\ IsAtlasSprite(e) /\ AssetsReady(ent[e].sprite)
               /\ ent[e].sprite.texture_atlas[1].index >= Len(TexturesOf(e)) )
                => aborted'
      ]_vars

\* the sprite carries Sprite3dUserMaterial and its handle has no asset in the registry
MissingUserMaterial(e) ==
    Alive(e) /\ ent[e].user_material /\ ~HasMaterial(materials, ent[e].material)

\* this step is the run of handle_images
HandleImagesStep == pc = "react" /\ "handle_images" \in todo /\ "handle_images" \notin todo'

\* C26: when handle_images meets a changed sprite with the user-material marker whose
\* handle is absent from the registry, it reports a diagnostic for the entity and skips
\* it: the sprite keeps its handle, nothing aborts, the material cache and the registry
\* receive only what the other changed sprites need, and those sprites are served.
C26_MissingUserMaterialSkipped ==
    [][ HandleImagesStep =>
          LET missing == { e \in Changed : MissingUserMaterial(e) }
              others  == { f \in Changed : ~ent[f].user_material }
              keys    == { MatKey(ent[f].sprite, ent[f].sprite3d) : f \in others }
          IN  /\ ~aborted'
              /\ \A e \in missing :
                    /\ MaterialMissing(e) \in diagnostics'
                    /\ ent'[e].material = ent[e].material
              /\ DOMAIN material_cache' = DOMAIN material_cache \cup keys
              /\ Len(materials') = Len(materials) + Cardinality(keys \ DOMAIN material_cache)
              /\ \A h \in 1..Len(materials) : materials'[h] = materials[h]
              /\ \A f \in others :
                    ent'[f].material = material_cache'[MatKey(ent[f].sprite, ent[f].sprite3d)]
      ]_vars

\* C26 witness: handle_images has met a sprite whose user material is missing and has
\* reported it, and a sprite served from the material cache in the same frames.
C26_Witness ==
    /\ pc = "idle"
    /\ \E e, f \in Entities :
          /\ MissingUserMaterial(e) /\ ent[e].changed = {}
          /\ MaterialMissing(e) \in diagnostics
          /\ ent[e].material = DefaultHandle
          /\ Resolved(f) /\ ~ent[f].user_material /\ ent[f].changed = {}
          /\ ent[f].material # DefaultHandle
          /\ e < f

Abs(n) == IF n < 0 THEN -n ELSE n

\* the geometry key has been derived for the sprite's current frame and stored first in
\* its key list
KeyBuilt(e) ==
    /\ Resolved(e)
    /\ Len(ent[e].sprite3d.texture_atlas_keys) >= 1
    /\ IsAtlasSprite(e) => ent[e].sprite.texture_atlas[1].index = 0

StoredKey(e) == ent[e].sprite3d.texture_atlas_keys[1]

\* the two sprites have the same image, sub-rectangle, pixels per metre and sidedness:
\* the same width and height, and they can differ in the pivot only
SameShape(a, b) ==
    /\ ent[a].sprite.image = ent[b].sprite.image
    /\ ent[a].sprite.texture_atlas = ent[b].sprite.texture_atlas
    /\ ent[a].sprite3d.pixels_per_metre = ent[b].sprite3d.pixels_per_metre
    /\ ent[a].sprite3d.double_sided = ent[b].sprite3d.double_sided

\* the pivots differ by less than one quantisation unit, 1 / MESH_CACHE_GRANULARITY, in
\* both coordinates
NearPivots(a, b) ==
    \A i \in 1..2 :
        Abs(PivotOf(ent[a].sprite3d)[i] - PivotOf(ent[b].sprite3d)[i]) * MESH_CACHE_GRANULARITY
            < PivotDen

C28_EqualKeysNearInputs ==
    \A a, b \in Entities :
        ( KeyBuilt(a) /\ KeyBuilt(b) /\ StoredKey(a) = StoredKey(b) ) =>
            /\ ent[a].sprite3d.double_sided = ent[b].sprite3d.double_sided
            /\ NearPivots(a, b)
            /\ ent[a].mesh = ent[b].mesh

\* the material key of the sprite's current fields
CurrentMatKey(e) == MatKey(ent[e].sprite, ent[e].sprite3d)

OnePassOfKeys(e) == IF IsAtlasSprite(e) THEN Len(TexturesOf(e)) ELSE 1

\* C30: texture_atlas_keys is built exactly once: it is empty while the sprite is not
\* resolved, the step that resolves the sprite leaves the keys of one pass over its
\* sub-rectangles, and no step changes the list of a resolved sprite.
C30_KeyListBuiltOnce ==
    [][ \A e \in Entities :
          /\ ( Alive(e) /\ ent[e].builder ) => ent[e].sprite3d.texture_atlas_keys = << >>
          /\ ResolvedNow(e) => Len(ent'[e].sprite3d.texture_atlas_keys) = OnePassOfKeys(e)
          /\ ( Resolved(e) /\ ent'[e].status = "alive" ) =>
                ent'[e].sprite3d.texture_atlas_keys = ent[e].sprite3d.texture_atlas_keys
      ]_vars

\* C31: the quad built for a plain sprite has 8 positions, the second four repeating the
\* first; corner 0 is at (-pivot.x*w, -pivot.y*h) and corner 3 at (w - pivot.x*w,
\* h - pivot.y*h), so that the point pivot*(w, h) is the local origin; the pivot None gives
\* the positions of the pivot (0.5, 0.5); the indices are 0,1,2,1,3,2 when single-sided and
\* 0,1,2,1,3,2,5,4,6,7,5,6 when double-sided.
C31_QuadGeometry ==
    \A e \in Entities :
        ( Resolved(e) /\ ~IsAtlasSprite(e) /\ ent[e].mesh \in 1..Len(meshes) ) =>
            LET m    == meshes[ent[e].mesh]
                s3d  == ent[e].sprite3d
                size == ImageSize(ent[e].sprite.image)
                half == Some(<< PivotDen \div 2, PivotDen \div 2 >>)
                p    == IF s3d.pivot = None THEN half[1] ELSE s3d.pivot[1]
                w    == size[1] * PivotDen
                h    == size[2] * PivotDen
                x0   == -(p[1] * size[1])
                y0   == -(p[2] * size[2])
            IN  /\ Len(m.positions) = 8
                /\ m.den = s3d.pixels_per_metre * PivotDen
                /\ m.positions[1] = << x0, y0, 0 >>
                /\ m.positions[2] = << w + x0, y0, 0 >>
                /\ m.positions[3] = << x0, h + y0, 0 >>
                /\ m.positions[4] = << w + x0, h + y0, 0 >>
                /\ \A i \in 1..4 : m.positions[i + 4] = m.positions[i]
                /\ m.positions[1][1] + p[1] * size[1] = 0
                /\ m.positions[1][2] + p[2] * size[2] = 0
                /\ quad(size[1], size[2], s3d.pixels_per_metre, None, s3d.double_sided).positions
                     = quad(size[1], size[2], s3d.pixels_per_metre, half, s3d.double_sided).positions
                /\ m.indices = IF s3d.double_sided
                               THEN << 0, 1, 2, 1, 3, 2, 5, 4, 6, 7, 5, 6 >>
                               ELSE << 0, 1, 2, 1, 3, 2 >>

\* C31 witness: a single-sided sprite with pivot (1, 1) and a double-sided sprite without
\* a pivot are resolved, each with a quad of its own.
C31_Witness ==
    \E a, b \in Entities :
        /\ Resolved(a) /\ Resolved(b)
        /\ ent[a].sprite3d.pivot = Some(<< PivotDen, PivotDen >>) /\ ~ent[a].sprite3d.double_sided
        /\ ent[b].sprite3d.pivot = None /\ ent[b].sprite3d.double_sided
        /\ ent[a].mesh \in 1..Len(meshes) /\ ent[b].mesh \in 1..Len(meshes)
        /\ ent[a].mesh # ent[b].mesh
        /\ meshes[ent[a].mesh].positions[4] = << 0, 0, 0 >>
        /\ Len(meshes[ent[a].mesh].indices) = 6
        /\ Len(meshes[ent[b].mesh].indices) = 12

\* C32: when a frame has ended, the material of a resolved sprite with a material of the
\* user's (supplied unflipped) is flipped on exactly the axes the sprite's flip flags ask
\* for, however many passes have seen the sprite as changed.
C32_UserMaterialFlippedOnce ==
    \A e \in Entities :
        ( /\ pc = "idle"
          /\ Resolved(e) /\ ent[e].user_material /\ ent[e].changed = {}
          /\ HasMaterial(materials, ent[e].material) ) =>
            materials[ent[e].material].uv_flip = << ent[e].sprite.flip_x, ent[e].sprite.flip_y >>

\* C33: a sprite that still carries Sprite3dBuilder and has no material of the user's
\* holds the mesh and material handles it was spawned with, and while no sprite has ever
\* lost the marker both caches and both registries are empty.
C33_UnreadySpriteUntouched ==
    /\ \A e \in Entities :
          ( Alive(e) /\ ent[e].builder /\ ~ent[e].user_material ) =>
              /\ ent[e].mesh = DefaultHandle
              /\ ent[e].material = DefaultHandle
    /\ ( /\ mutations = 0
         /\ \A e \in Entities : Alive(e) => ( ent[e].builder /\ ~ent[e].user_material ) ) =>
            /\ DOMAIN mesh_cache = {} /\ DOMAIN material_cache = {}
            /\ meshes = << >> /\ materials = << >>

\* C34: no step changes a material that the material cache holds: the asset behind every
\* cache entry stays as it was created, also when Sprite3d is inserted again on a sprite
\* that was resolved through the cache.
C34_CacheMaterialsNeverModified ==
    [][ \A k \in DOMAIN material_cache :
            /\ HasMaterial(materials', material_cache[k])
            /\ materials'[material_cache[k]] = materials[material_cache[k]]
      ]_vars

\* C35: once the wait task of a sprite has reported that its image failed to load (the
\* sprite has waited, finalize_waiting_sprites has consumed its records and logged the
\* failure of its image), no step creates a pending record for the sprite again.
C35_FailedSpriteIsTerminal ==
    [][ \A e \in Entities :
          ( /\ Alive(e) /\ ent[e].builder /\ ent[e].waited
            /\ RecordsOf(e) = {}
            /\ imgState[ent[e].sprite.image] = "Failed"
            /\ LoadFailed([ image |-> ent[e].sprite.image ]) \in diagnostics
            /\ ent'[e].status = "alive" ) =>
              { k \in 1..Len(waiting') : waiting'[k].entity = e } = {}
      ]_vars

\* C36: when a frame has ended, every resolved atlas sprite whose frame index is within
\* its key list holds the mesh cached under the key at that index, and every resolved
\* sprite of the cached path holds the material cached under its current material key.
C36_HandlesFollowCaches ==
    ( pc = "idle" /\ ~aborted ) =>
        \A e \in Entities :
            ( Resolved(e) /\ ent[e].changed = {} ) =>
                /\ ( IsAtlasSprite(e) /\ ~FrameMissing(e) ) =>
                      ent[e].mesh = mesh_cache[ent[e].sprite3d.texture_atlas_keys[
                                                   ent[e].sprite.texture_atlas[1].index + 1]]
                /\ ~ent[e].user_material =>
                      /\ CurrentMatKey(e) \in DOMAIN material_cache
                      /\ ent[e].material = material_cache[CurrentMatKey(e)]

\* C36 witness: the frame index of a resolved atlas sprite was changed from 0 to 1 and
\* the frame has ended: the sprite holds the mesh cached under its second key, which is
\* not the mesh of its first key, and the material cached under its material key.
C36_Witness ==
    /\ pc = "idle" /\ ~aborted /\ mutations = 1
    /\ \E e \in Entities :
          /\ Resolved(e) /\ ent[e].changed = {} /\ ~ent[e].user_material
          /\ IsAtlasSprite(e) /\ ~FrameMissing(e)
          /\ ent[e].sprite.texture_atlas[1].index = 1
          /\ ent[e].mesh = mesh_cache[ent[e].sprite3d.texture_atlas_keys[2]]
          /\ ent[e].mesh # mesh_cache[ent[e].sprite3d.texture_atlas_keys[1]]
          /\ ent[e].material = material_cache[CurrentMatKey(e)]

\* C37: in every state the mesh registry holds exactly the meshes of the mesh cache and
\* the material registry exactly the materials of the material cache and those the users
\* supplied: as many plugin-created meshes as mesh keys, as many plugin-created materials
\* as material keys, and no handle under two keys.
C37_RegistriesMirrorCaches ==
    LET cachedMeshes    == { mesh_cache[k] : k \in DOMAIN mesh_cache }
        cachedMaterials == { material_cache[k] : k \in DOMAIN material_cache }
        supplied        == { h \in 1..Len(materials) :
                               /\ h \notin cachedMaterials
                               /\ \E e \in Entities : ent[e].user_material /\ ent[e].material = h }
    IN  /\ cachedMeshes = 1..Len(meshes)
        /\ Len(meshes) = Cardinality(DOMAIN mesh_cache)
        /\ cachedMaterials \cup supplied = 1..Len(materials)
        /\ Len(materials) - Cardinality(supplied) = Cardinality(DOMAIN material_cache)
        /\ \A k1, k2 \in DOMAIN mesh_cache : mesh_cache[k1] = mesh_cache[k2] => k1 = k2
        /\ \A k1, k2 \in DOMAIN material_cache :
              material_cache[k1] = material_cache[k2] => k1 = k2

\* C37 witness: a plain and an atlas sprite are resolved, one of them by
\* finalize_waiting_sprites, one tint was changed: three meshes under three keys, two
\* materials under two keys.
C37_Witness ==
    /\ Len(meshes) = 3 /\ Cardinality(DOMAIN mesh_cache) = 3
    /\ Len(materials) = 2 /\ Cardinality(DOMAIN material_cache) = 2
    /\ \E a, b \in Entities :
          /\ Resolved(a) /\ Resolved(b)
          /\ ent[a].resolvedBy = "finalize"
          /\ IsAtlasSprite(a) /\ ~IsAtlasSprite(b)

\* C38: when both change reactions of a frame are still to run, running
\* handle_texture_atlases before handle_images gives the same sprites, caches, registries
\* and diagnostics as running handle_images before handle_texture_atlases, for every set
\* of changed sprites and every order in which handle_images visits them.
C38_ReactionsCommute ==
    ( pc = "react" /\ ~aborted /\ todo = { "handle_images", "handle_texture_atlases" } ) =>
        LET atlases(w) == [ w EXCEPT !.ent = [ e \in Entities |->
                                IF e \in Changed THEN HandleAtlasOne(w.ent[e], w.mesh_cache)
                                                 ELSE w.ent[e] ] ]
        IN  \A order \in Perms(Changed) :
                HandleImagesRun(atlases(TheWorld), order) = atlases(HandleImagesRun(TheWorld, order))

\* C38 witness: both reactions are still to run over a resolved atlas sprite whose frame
\* index and flip were changed: handle_texture_atlases will swap its mesh and
\* handle_images will create the material of its new key.
C38_Witness ==
    /\ pc = "react" /\ ~aborted /\ todo = { "handle_images", "handle_texture_atlases" }
    /\ \E e \in Changed :
          /\ Resolved(e) /\ ~ent[e].user_material
          /\ ent[e].changed = { "index", "flip" }
          /\ HandleAtlasOne(ent[e], mesh_cache).mesh # ent[e].mesh
          /\ CurrentMatKey(e) \notin DOMAIN material_cache

====
